---- MODULE Spec2Model ----
(***************************************************************************)
(* Constant Driver: record store, period resolver, duration calculator and *)
(* dashboard aggregation (src/src/App.tsx, src/src/utils/date.ts).         *)
(*                                                                         *)
(* Time values.  A JavaScript Date holds a number of milliseconds since    *)
(* the epoch.  The numbers of present-day dates do not fit the integers of *)
(* the model checker, so an instant is kept as the pair                    *)
(*     [d |-> whole days since 1970-01-01, ms |-> millisecond of the day]  *)
(* which denotes d * 86400000 + ms exactly.  An ISO-8601 string            *)
(* "YYYY-MM-DDTHH:mm:ss.sssZ" is kept as the record of its fields, a       *)
(* date-only string "YYYY-MM-DD" as <<Y, M, D>> and the empty string as    *)
(* <<>>.  Money amounts are whole numbers.  An optional field is <<>>      *)
(* (undefined) or <<v>>.                                                   *)
(***************************************************************************)
EXTENDS Integers, Sequences, FiniteSets, TLC

VARIABLES
    entries,    \* App.entries: Entry[]
    shifts,     \* App.shifts: Shift[]
    goals,      \* App.goals: {daily, weekly, monthly}
    filter,     \* App.filter: {period, customRange}
    now,        \* the host clock: what `new Date()` returns
    tz,         \* the host time zone
    durShift,   \* duration calculator: the shift given
    durResult,  \* duration calculator: <<>> or <<the three results>>
    fmtDate,    \* time normalization: <<>> or <<the Date given>>
    fmtText,    \* time normalization: <<>> or <<the stored and displayed texts>>
    cardIn,     \* progress cards: <<>> or <<the current and target values given>>
    cardOut,    \* progress cards: <<>> or <<what the two cards render>>
    alerted,    \* <<>> or <<the message the last handler showed with alert()>>
    phase,      \* service worker: "parsed", "installed" or "activated"
    caches,     \* CacheStorage: cache name -> the entries [url, method, status]
    puts,       \* the cache.put() calls that have not settled
    answered,   \* the urls a handled GET of which the network answered with 200
    lastAnswer  \* <<>> or <<what the page got for its latest request>>

durVars == <<durShift, durResult>>

fmtVars == <<fmtDate, fmtText>>

cardVars == <<cardIn, cardOut>>

swVars == <<phase, caches, puts, answered, lastAnswer>>

calcVars == <<durVars, fmtVars, cardVars, swVars>>

vars == <<entries, shifts, goals, filter, now, tz, calcVars, alerted>>

---------------------------------------------------------------------------
(* Instants *)

MS_PER_DAY == 86400000
MS_PER_HOUR == 3600000
MS_PER_MINUTE == 60000
MS_PER_SECOND == 1000

Instant(d, ms) == [d |-> d + (ms \div MS_PER_DAY), ms |-> ms % MS_PER_DAY]

Epoch == [d |-> 0, ms |-> 0]

AddMs(t, k) == Instant(t.d, t.ms + k)

\* a < b and a <= b on instants (the comparisons of Date objects)
Before(a, b) == a.d < b.d \/ (a.d = b.d /\ a.ms < b.ms)

NotAfter(a, b) == a.d < b.d \/ (a.d = b.d /\ a.ms <= b.ms)

\* b.getTime() - a.getTime()
MsBetween(a, b) == (b.d - a.d) * MS_PER_DAY + (b.ms - a.ms)

---------------------------------------------------------------------------
(* The proleptic Gregorian calendar of ECMAScript Date *)

\* days since the epoch of the civil date y-m-d, m in 1..12
DaysFromCivil(y, m, d) ==
    LET yy  == IF m <= 2 THEN y - 1 ELSE y
        era == yy \div 400
        yoe == yy - era * 400
        mp  == IF m > 2 THEN m - 3 ELSE m + 9
        doy == ((153 * mp + 2) \div 5) + d - 1
        doe == yoe * 365 + (yoe \div 4) - (yoe \div 100) + doy
    IN  era * 146097 + doe - 719468

\* the civil date <<y, m, d>> of a day number
CivilFromDays(z) ==
    LET zz  == z + 719468
        era == zz \div 146097
        doe == zz - era * 146097
        yoe == (doe - (doe \div 1460) + (doe \div 36524) - (doe \div 146096)) \div 365
        doy == doe - (365 * yoe + (yoe \div 4) - (yoe \div 100))
        mp  == (5 * doy + 2) \div 153
        d   == doy - ((153 * mp + 2) \div 5) + 1
        m   == IF mp < 10 THEN mp + 3 ELSE mp - 9
        y   == yoe + era * 400 + (IF m <= 2 THEN 1 ELSE 0)
    IN  <<y, m, d>>

\* 0 = Sunday .. 6 = Saturday; 1970-01-01 was a Thursday
WeekDay(z) == (z + 4) % 7

\* MakeDay: month is 0-based and may lie outside 0..11, date outside the month
MakeDay(year, month, date) ==
    DaysFromCivil(year + (month \div 12), (month % 12) + 1, 1) + date - 1

MakeTime(h, mi, s, ms) ==
    h * MS_PER_HOUR + mi * MS_PER_MINUTE + s * MS_PER_SECOND + ms

\* MakeDate(MakeDay(year, month, date), MakeTime(h, mi, s, ms))
MakeDate(year, month, date, h, mi, s, ms) ==
    Instant(MakeDay(year, month, date), MakeTime(h, mi, s, ms))

\* Date.UTC and the Date constructor read a year from 0 to 99 as 1900 + year
MakeFullYear(year) == IF 0 <= year /\ year <= 99 THEN 1900 + year ELSE year

\* Date.UTC(year, month, date, h, mi, s, ms)
DateUTC(year, month, date, h, mi, s, ms) ==
    MakeDate(MakeFullYear(year), month, date, h, mi, s, ms)

\* the calendar fields of an instant read as UTC; month is 0-based as in getUTCMonth
FieldsOf(c, t) ==
    [year |-> c[1], month |-> c[2] - 1, date |-> c[3], day |-> WeekDay(t.d),
     hours |-> t.ms \div MS_PER_HOUR,
     minutes |-> (t.ms % MS_PER_HOUR) \div MS_PER_MINUTE,
     seconds |-> (t.ms % MS_PER_MINUTE) \div MS_PER_SECOND,
     ms |-> t.ms % MS_PER_SECOND]

Fields(t) == FieldsOf(CivilFromDays(t.d), t)

---------------------------------------------------------------------------
(* The host time zone: a standard offset and, for a zone with daylight     *)
(* saving time, the interval of instants during which clocks are tz.shift   *)
(* minutes ahead.  Offsets are in minutes east of Greenwich.               *)

OffsetMs(t) ==
    IF tz.dst /\ NotAfter(tz.dstStart, t) /\ Before(t, tz.dstEnd)
    THEN (tz.std + tz.shift) * MS_PER_MINUTE
    ELSE tz.std * MS_PER_MINUTE

\* LocalTime(t): the instant whose UTC fields are the local fields of t
LocalTime(t) == AddMs(t, OffsetMs(t))

\* UTC(tlocal): a skipped or repeated local time is read with the offset in
\* force before the transition
FromLocalTime(l) ==
    LET early == AddMs(l, -((tz.std + tz.shift) * MS_PER_MINUTE))
        late  == AddMs(l, -(tz.std * MS_PER_MINUTE))
    IN  IF tz.dst /\ LocalTime(early) = l THEN early ELSE late

\* getFullYear(), getMonth(), getDate(), getDay(), getHours(), ...
LocalFields(t) == Fields(LocalTime(t))

\* new Date(year, month, date, h, mi, s, ms)
NewDate(year, month, date, h, mi, s, ms) ==
    FromLocalTime(MakeDate(MakeFullYear(year), month, date, h, mi, s, ms))

\* the date whose local fields are f with the day of the month replaced by n
WithDate(f, n) ==
    FromLocalTime(MakeDate(f.year, f.month, n, f.hours, f.minutes, f.seconds, f.ms))

\* d.setDate(n)
setDate(t, n) == WithDate(LocalFields(t), n)

\* the date whose local fields are f with the time of day replaced
WithHours(f, h, mi, s, ms) ==
    FromLocalTime(MakeDate(f.year, f.month, f.date, h, mi, s, ms))

\* d.setHours(h, mi, s, ms)
setHours(t, h, mi, s, ms) == WithHours(LocalFields(t), h, mi, s, ms)

\* d.setUTCHours(h, mi, s, ms)
setUTCHours(t, h, mi, s, ms) == Instant(t.d, MakeTime(h, mi, s, ms))

\* d.toISOString(): the string "YYYY-MM-DDTHH:mm:ss.sssZ", month 1-based
IsoOf(f) ==
    [Y |-> f.year, M |-> f.month + 1, D |-> f.date,
     h |-> f.hours, m |-> f.minutes, s |-> f.seconds, ms |-> f.ms]

toISOString(t) == IsoOf(Fields(t))

\* new Date(isoString) for a full ISO string
ParseISO(iso) == MakeDate(iso.Y, iso.M - 1, iso.D, iso.h, iso.m, iso.s, iso.ms)

\* new Date("YYYY-MM-DD"): a date-only string is read as UTC midnight
ParseDateOnly(str) == MakeDate(str[1], str[2] - 1, str[3], 0, 0, 0, 0)

---------------------------------------------------------------------------
(* Period resolver: src/src/utils/date.ts getPeriodRange *)

Periods == {"today", "yesterday", "this_week", "last_7_days", "this_month",
            "last_30_days", "all", "custom"}

\* const today = new Date(now.getFullYear(), now.getMonth(), now.getDate())
Today ==
    LET n == LocalFields(now)
    IN  NewDate(n.year, n.month, n.date, 0, 0, 0, 0)

\* a slip: the last millisecond not taken off
TodayRangeWholeDay == [start |-> Today, end |-> AddMs(Today, MS_PER_DAY)]

TodayRange == [start |-> Today, end |-> AddMs(Today, MS_PER_DAY - 1)]

YesterdayRange ==
    LET yesterday == setDate(Today, LocalFields(Today).date - 1)
    IN  [start |-> yesterday, end |-> AddMs(yesterday, MS_PER_DAY - 1)]

\* a slip: Sunday not sent back to the Monday before it
ThisWeekRangeSundayAhead ==
    LET t           == LocalFields(Today)
        diff        == t.date - t.day + 1
        startOfWeek == NewDate(t.year, t.month, diff, 0, 0, 0, 0)
        plusSix     == setDate(startOfWeek, LocalFields(startOfWeek).date + 6)
    IN  [start |-> startOfWeek, end |-> setHours(plusSix, 23, 59, 59, 999)]

ThisWeekRange ==
    LET t           == LocalFields(Today)
        currentDay  == t.day
        diff        == t.date - currentDay + (IF currentDay = 0 THEN -6 ELSE 1)
        startOfWeek == NewDate(t.year, t.month, diff, 0, 0, 0, 0)
        plusSix     == setDate(startOfWeek, LocalFields(startOfWeek).date + 6)
        endOfWeek   == setHours(plusSix, 23, 59, 59, 999)
    IN  [start |-> startOfWeek, end |-> endOfWeek]

\* a slip: seven days taken off instead of six
Last7DaysRangeSevenBack ==
    [start |-> setDate(Today, LocalFields(Today).date - 7), end |-> now]

Last7DaysRange ==
    [start |-> setDate(Today, LocalFields(Today).date - 6), end |-> now]

\* a slip: the month closed on the first day of the next one
ThisMonthRangeFirstOfNext ==
    LET t == LocalFields(Today)
    IN  [start |-> NewDate(t.year, t.month, 1, 0, 0, 0, 0),
         end   |-> NewDate(t.year, t.month + 1, 1, 23, 59, 59, 999)]

ThisMonthRange ==
    LET t == LocalFields(Today)
    IN  [start |-> NewDate(t.year, t.month, 1, 0, 0, 0, 0),
         end   |-> NewDate(t.year, t.month + 1, 0, 23, 59, 59, 999)]

Last30DaysRange ==
    [start |-> setDate(Today, LocalFields(Today).date - 29), end |-> now]

AllRange == [start |-> Epoch, end |-> now]

\* a slip: the bounds set with the local-time setters
CustomRangeLocal(customRange) ==
    IF customRange.start = <<>> \/ customRange.end = <<>>
    THEN [start |-> Epoch, end |-> Epoch]
    ELSE [start |-> setHours(ParseDateOnly(customRange.start), 0, 0, 0, 0),
          end   |-> setHours(ParseDateOnly(customRange.end), 23, 59, 59, 999)]

CustomRange(customRange) ==
    IF customRange.start = <<>> \/ customRange.end = <<>>
    THEN [start |-> Epoch, end |-> Epoch]
    ELSE [start |-> setUTCHours(ParseDateOnly(customRange.start), 0, 0, 0, 0),
          end   |-> setUTCHours(ParseDateOnly(customRange.end), 23, 59, 59, 999)]

getPeriodRange(f) ==
    CASE f.period = "today"        -> TodayRange
      [] f.period = "yesterday"    -> YesterdayRange
      [] f.period = "this_week"    -> ThisWeekRange
      [] f.period = "last_7_days"  -> Last7DaysRange
      [] f.period = "this_month"   -> ThisMonthRange
      [] f.period = "last_30_days" -> Last30DaysRange
      [] f.period = "all"          -> AllRange
      [] f.period = "custom"       -> CustomRange(f.customRange)
      [] OTHER                     -> TodayRange

---------------------------------------------------------------------------
(* Time normalization: src/src/utils/date.ts *)

\* toNaiveUTCISOString(date): the local fields of the date, written as UTC
NaiveUTC(f) == DateUTC(f.year, f.month, f.date, f.hours, f.minutes, f.seconds, f.ms)

toNaiveUTCISOString(date) == toISOString(NaiveUTC(LocalFields(date)))

\* Text is a sequence of characters.  The decimal digits of n >= 0, padded
\* with zeros to the width given (String.prototype.padStart).
Digit(n) == <<"0", "1", "2", "3", "4", "5", "6", "7", "8", "9">>[n + 1]

Pow10(k) == IF k = 0 THEN 1 ELSE IF k = 1 THEN 10 ELSE IF k = 2 THEN 100
            ELSE IF k = 3 THEN 1000 ELSE IF k = 4 THEN 10000 ELSE 100000

Pad(n, width) == [i \in 1..width |-> Digit((n \div Pow10(width - i)) % 10)]

\* the year of Date.prototype.toISOString: four digits from 0 to 9999, a sign
\* and six digits otherwise
IsoYearText(y) ==
    IF 0 <= y /\ y <= 9999 THEN Pad(y, 4)
    ELSE IF y < 0 THEN <<"-">> \o Pad(-y, 6) ELSE <<"+">> \o Pad(y, 6)

\* the characters of the ISO string "YYYY-MM-DDTHH:mm:ss.sssZ"
IsoText(iso) ==
    IsoYearText(iso.Y) \o <<"-">> \o Pad(iso.M, 2) \o <<"-">> \o Pad(iso.D, 2)
        \o <<"T">> \o Pad(iso.h, 2) \o <<":">> \o Pad(iso.m, 2)
        \o <<":">> \o Pad(iso.s, 2) \o <<".">> \o Pad(iso.ms, 3) \o <<"Z">>

\* String.prototype.includes for one character
Includes(text, ch) == \E i \in 1..Len(text) : text[i] = ch

\* String.prototype.split on one character
Split(text, sep) ==
    LET cuts   == {i \in 1..Len(text) : text[i] = sep}
        Nth(k) == CHOOSE i \in cuts : Cardinality({j \in cuts : j < i}) = k - 1
        From(k) == IF k = 1 THEN 1 ELSE Nth(k - 1) + 1
        To(k)   == IF k = Cardinality(cuts) + 1 THEN Len(text) ELSE Nth(k) - 1
    IN  [k \in 1..(Cardinality(cuts) + 1) |-> SubSeq(text, From(k), To(k))]

\* Number(text) for a text of decimal digits; Number('') is 0
DigitValue(ch) == CHOOSE n \in 0..9 : Digit(n) = ch

RECURSIVE NumberOf(_)
NumberOf(text) ==
    IF text = <<>> THEN 0
    ELSE 10 * NumberOf(SubSeq(text, 1, Len(text) - 1)) + DigitValue(text[Len(text)])

\* text.split(sep).map(Number)
SplitNumbers(text, sep) ==
    [k \in 1..Len(Split(text, sep)) |-> NumberOf(Split(text, sep)[k])]

\* const [year, month, day] = datePart.split("-"); `${day}/${month}/${year}`
DayMonthYear(parts) == parts[3] \o <<"/">> \o parts[2] \o <<"/">> \o parts[1]

\* formatDateFromNaiveUTC(isoString), on the characters of the string
formatDateFromNaiveUTCText(text) ==
    IF text = <<>> \/ ~Includes(text, "T") THEN <<>>
    ELSE DayMonthYear(Split(Split(text, "T")[1], "-"))

formatDateFromNaiveUTC(isoString) == formatDateFromNaiveUTCText(IsoText(isoString))

\* formatTimeFromNaiveUTC(isoString), on the characters of the string
formatTimeFromNaiveUTCText(text) ==
    IF text = <<>> \/ ~Includes(text, "T") THEN <<>>
    ELSE SubSeq(Split(text, "T")[2], 1, 5)

formatTimeFromNaiveUTC(isoString) == formatTimeFromNaiveUTCText(IsoText(isoString))

---------------------------------------------------------------------------
(* Duration calculator: src/src/utils/date.ts *)

\* shift.pauses.reduce(...): a pause counts when both bounds are present and
\* its end is after its start
RECURSIVE PauseReduce(_, _)
PauseReduce(pauses, acc) ==
    IF pauses = <<>> THEN acc
    ELSE LET pause == Head(pauses)
             pauseStart == ParseISO(pause.start[1])
             pauseEnd   == ParseISO(pause.end[1])
         IN  IF pause.start # <<>> /\ pause.end # <<>>
                /\ MsBetween(pauseStart, pauseEnd) > 0
             THEN PauseReduce(Tail(pauses), acc + MsBetween(pauseStart, pauseEnd))
             ELSE PauseReduce(Tail(pauses), acc)

\* a slip: every pause with both bounds counted, also one that ends before it
\* starts
RECURSIVE PauseReduceSigned(_, _)
PauseReduceSigned(pauses, acc) ==
    IF pauses = <<>> THEN acc
    ELSE LET pause == Head(pauses)
         IN  IF pause.start # <<>> /\ pause.end # <<>>
             THEN PauseReduceSigned(Tail(pauses),
                      acc + MsBetween(ParseISO(pause.start[1]), ParseISO(pause.end[1])))
             ELSE PauseReduceSigned(Tail(pauses), acc)

calculatePauseDurationSigned(shift) == PauseReduceSigned(shift.pauses, 0)

calculatePauseDuration(shift) == PauseReduce(shift.pauses, 0)

\* a slip: the result returned without the final clamp
calculateShiftDurationUnclamped(shift, withPauses) ==
    IF shift.start = <<>> \/ shift.end = <<>> THEN 0
    ELSE LET start == ParseISO(shift.start[1])
             end   == ParseISO(shift.end[1])
         IN  IF ~Before(start, end) THEN 0
             ELSE IF withPauses
                  THEN MsBetween(start, end) - calculatePauseDuration(shift)
                  ELSE MsBetween(start, end)

\* a slip: the pauses taken off whatever withPauses says
calculateShiftDurationAlwaysNet(shift, withPauses) ==
    IF shift.start = <<>> \/ shift.end = <<>> THEN 0
    ELSE LET start == ParseISO(shift.start[1])
             end   == ParseISO(shift.end[1])
             duration == MsBetween(start, end) - calculatePauseDuration(shift)
         IN  IF ~Before(start, end) THEN 0
             ELSE IF duration > 0 THEN duration ELSE 0

calculateShiftDuration(shift, withPauses) ==
    IF shift.start = <<>> \/ shift.end = <<>> THEN 0
    ELSE LET start == ParseISO(shift.start[1])
             end   == ParseISO(shift.end[1])
             gross == MsBetween(start, end)
             duration == IF withPauses
                         THEN gross - calculatePauseDuration(shift)
                         ELSE gross
         IN  IF ~Before(start, end) THEN 0
             ELSE IF duration > 0 THEN duration ELSE 0

---------------------------------------------------------------------------
(* Filtered sets: src/src/App.tsx App, useMemo *)

\* Array.prototype.reduce((sum, e) => sum + f(e), 0): a left fold
SumSeq(nums) ==
    LET sum[i \in 0..Len(nums)] == IF i = 0 THEN 0 ELSE sum[i - 1] + nums[i]
    IN  sum[Len(nums)]

InRange(t, range) == NotAfter(range.start, t) /\ NotAfter(t, range.end)

filteredEntriesOf(f) ==
    IF f.period = "custom" /\ (f.customRange.start = <<>> \/ f.customRange.end = <<>>)
    THEN <<>>
    ELSE LET range == getPeriodRange(f)
             Keep(e) == InRange(ParseISO(e.date), range)
         IN  SelectSeq(entries, Keep)

filteredShiftsOf(f) ==
    IF f.period = "custom" /\ (f.customRange.start = <<>> \/ f.customRange.end = <<>>)
    THEN <<>>
    ELSE LET range == getPeriodRange(f)
             \* new Date(undefined) is an invalid date: every comparison is false
             Keep(s) == s.start # <<>> /\ InRange(ParseISO(s.start[1]), range)
         IN  SelectSeq(shifts, Keep)

filteredEntries == filteredEntriesOf(filter)

filteredShifts == filteredShiftsOf(filter)

---------------------------------------------------------------------------
(* Dashboard statistics: src/src/App.tsx Dashboard.stats.  A quotient is   *)
(* kept as the fraction [n |-> numerator, d |-> denominator], d > 0.       *)

Frac(n, d) == [n |-> n, d |-> d]

\* x / y for fractions x and y, y > 0
FracDiv(x, y) == Frac(x.n * y.d, x.d * y.n)

FracPositive(x) == x.n > 0

\* a slip: the quotient taken without the test of the denominator
RateUnguarded(metric, total) == FracDiv(Frac(metric, 1), total)

\* total > 0 ? metric / total : 0
Rate(metric, total) ==
    IF FracPositive(total) THEN FracDiv(Frac(metric, 1), total) ELSE Frac(0, 1)

IsGain(e) == e.type = "GAIN"

IsExpense(e) == e.type = "EXPENSE"

Amount(e) == e.amount

\* a slip: the expense total taken over every entry
expensesOfEveryEntry(fe) == SumSeq([i \in 1..Len(fe) |-> Amount(fe[i])])

revenueOf(fe) ==
    LET gains == SelectSeq(fe, IsGain)
    IN  SumSeq([i \in 1..Len(gains) |-> Amount(gains[i])])

expensesOf(fe) ==
    LET spent == SelectSeq(fe, IsExpense)
    IN  SumSeq([i \in 1..Len(spent) |-> Amount(spent[i])])

totalDurationMsOf(fs) ==
    SumSeq([i \in 1..Len(fs) |-> calculateShiftDuration(fs[i], TRUE)])

\* e.isReward and e.tripCount are tested for truthiness
totalTripsOf(fe) ==
    LET CountsTrips(e) == /\ e.type = "GAIN"
                          /\ e.isReward # <<TRUE>>
                          /\ e.tripCount # <<>> /\ e.tripCount # <<0>>
        trips == SelectSeq(fe, CountsTrips)
    IN  SumSeq([i \in 1..Len(trips) |-> trips[i].tripCount[1]])

totalKmOf(fe) ==
    LET IsFuel(e) == /\ e.type = "EXPENSE"
                     /\ e.category = <<"FUEL">>
                     /\ e.fuelDetails # <<>>
        fuelEntries == SelectSeq(fe, IsFuel)
    IN  SumSeq([i \in 1..Len(fuelEntries) |-> fuelEntries[i].fuelDetails[1].distanceDriven])

stats ==
    LET fe == filteredEntries
        fs == filteredShifts
        revenue  == revenueOf(fe)
        expenses == expensesOf(fe)
        profit   == revenue - expenses
        totalDurationMs    == totalDurationMsOf(fs)
        totalDurationHours == Frac(totalDurationMs, MS_PER_HOUR)
        totalTrips == Frac(totalTripsOf(fe), 1)
        totalKm    == Frac(totalKmOf(fe), 1)
    IN  [revenue |-> revenue, expenses |-> expenses, profit |-> profit,
         totalDurationMs |-> totalDurationMs,
         revenuePerHour  |-> Rate(revenue, totalDurationHours),
         revenuePerKm    |-> Rate(revenue, totalKm),
         revenuePerTrip  |-> Rate(revenue, totalTrips),
         expensesPerHour |-> Rate(expenses, totalDurationHours),
         expensesPerKm   |-> Rate(expenses, totalKm),
         expensesPerTrip |-> Rate(expenses, totalTrips),
         profitPerHour   |-> Rate(profit, totalDurationHours),
         profitPerKm     |-> Rate(profit, totalKm),
         profitPerTrip   |-> Rate(profit, totalTrips),
         totalKm |-> totalKm.n]

---------------------------------------------------------------------------
(* Record store: src/src/App.tsx App *)

\* Array.prototype.sort((a, b) => Key(b) - Key(a)): stable, newest first
SortDesc(seq, keys) ==
    LET Insert(sorted, j) ==
            LET ahead == Cardinality({i \in 1..Len(sorted) :
                                         NotAfter(keys[j], keys[sorted[i]])})
            IN  SubSeq(sorted, 1, ahead) \o <<j>> \o SubSeq(sorted, ahead + 1, Len(sorted))
        sorted[i \in 0..Len(seq)] ==
            IF i = 0 THEN <<>> ELSE Insert(sorted[i - 1], i)
        order == sorted[Len(seq)]
    IN  [i \in 1..Len(seq) |-> seq[order[i]]]

EntryDate(e) == ParseISO(e.date)

ShiftStart(s) == ParseISO(s.start[1])

\* [...prev, {...entry, id: new Date().toISOString()}].sort(...)
addEntry(entry) ==
    LET next == Append(entries, [id |-> toISOString(now)] @@ entry)
    IN  entries' = SortDesc(next, [i \in 1..Len(next) |-> EntryDate(next[i])])

\* an update that would insert the record when no record has its id
updateEntryOrInsert(updatedEntry) ==
    LET Same(e) == e.id = updatedEntry.id
        next == IF SelectSeq(entries, Same) = <<>>
                THEN Append(entries, updatedEntry)
                ELSE [i \in 1..Len(entries) |->
                         IF entries[i].id = updatedEntry.id THEN updatedEntry ELSE entries[i]]
    IN  entries' = SortDesc(next, [i \in 1..Len(next) |-> EntryDate(next[i])])

\* prev.map(e => e.id === updatedEntry.id ? updatedEntry : e).sort(...)
updateEntry(updatedEntry) ==
    LET next == [i \in 1..Len(entries) |->
                    IF entries[i].id = updatedEntry.id THEN updatedEntry ELSE entries[i]]
    IN  entries' = SortDesc(next, [i \in 1..Len(next) |-> EntryDate(next[i])])

\* prev.filter(e => e.id !== id)
deleteEntry(id) ==
    LET Other(e) == e.id # id
    IN  entries' = SelectSeq(entries, Other)

addShift(shift) ==
    LET next == Append(shifts, [id |-> toISOString(now)] @@ shift)
    IN  shifts' = SortDesc(next, [i \in 1..Len(next) |-> ShiftStart(next[i])])

\* an update that would leave the replaced record at its place
updateShiftInPlace(updatedShift) ==
    shifts' = [i \in 1..Len(shifts) |->
                  IF shifts[i].id = updatedShift.id THEN updatedShift ELSE shifts[i]]

updateShift(updatedShift) ==
    LET next == [i \in 1..Len(shifts) |->
                    IF shifts[i].id = updatedShift.id THEN updatedShift ELSE shifts[i]]
    IN  shifts' = SortDesc(next, [i \in 1..Len(next) |-> ShiftStart(next[i])])

deleteShift(id) ==
    LET Other(s) == s.id # id
    IN  shifts' = SelectSeq(shifts, Other)

---------------------------------------------------------------------------
(* Goals: src/src/App.tsx Dashboard, SummaryCard, GoalsView, GoalProgressCard. *)
(* A goal bucket is {profit?, revenue?}.                                       *)

\* Math.ceil(Math.abs(end.getTime() - start.getTime()) / (1000 * 60 * 60 * 24))
CeilDays(start, end) ==
    LET first == IF Before(end, start) THEN end ELSE start
        last  == IF Before(end, start) THEN start ELSE end
    IN  (last.d - first.d) + (IF last.ms > first.ms THEN 1 ELSE 0)

\* a slip: only a custom range of one and the same day counts as a day
DashboardGoalSameDay(f, g) ==
    IF f.period = "today" \/ f.period = "yesterday" THEN <<g.daily>>
    ELSE IF /\ f.period = "custom"
            /\ f.customRange.start # <<>> /\ f.customRange.end # <<>>
            /\ CeilDays(ParseDateOnly(f.customRange.start),
                        ParseDateOnly(f.customRange.end)) < 1
         THEN <<g.daily>>
    ELSE IF f.period = "this_week" \/ f.period = "last_7_days" THEN <<g.weekly>>
    ELSE IF f.period = "this_month" \/ f.period = "last_30_days" THEN <<g.monthly>>
    ELSE <<>>

\* Dashboard.goal: <<>> is undefined
DashboardGoal(f, g) ==
    IF f.period = "today" \/ f.period = "yesterday" THEN <<g.daily>>
    ELSE IF /\ f.period = "custom"
            /\ f.customRange.start # <<>> /\ f.customRange.end # <<>>
            /\ CeilDays(ParseDateOnly(f.customRange.start),
                        ParseDateOnly(f.customRange.end)) <= 1
         THEN <<g.daily>>
    ELSE IF f.period = "this_week" \/ f.period = "last_7_days" THEN <<g.weekly>>
    ELSE IF f.period = "this_month" \/ f.period = "last_30_days" THEN <<g.monthly>>
    ELSE <<>>

\* goal?.profit and goal?.revenue
GoalProfit(goal) == IF goal = <<>> THEN <<>> ELSE goal[1].profit

GoalRevenue(goal) == IF goal = <<>> THEN <<>> ELSE goal[1].revenue

\* Math.min(100, x) and Math.floor(x) on fractions with a positive divisor
FracMin100(x) == IF x.n > 100 * x.d THEN Frac(100, 1) ELSE x

FracFloor(x) == x.n \div x.d

\* typeof targetValue === 'number' && targetValue > 0
IsPositiveNumber(targetValue) == targetValue # <<>> /\ targetValue[1] > 0

\* (currentValue / targetValue) * 100
Progress(currentValue, targetValue) ==
    IF IsPositiveNumber(targetValue)
    THEN Frac(currentValue * 100, targetValue[1]) ELSE Frac(0, 1)

\* SummaryCard: whether the bar is rendered, its width in percent and the
\* percentage of the text
SummaryCard(currentValue, targetValue) ==
    [hasGoal |-> IsPositiveNumber(targetValue),
     width   |-> IF currentValue < 0 THEN Frac(0, 1)
                 ELSE FracMin100(Progress(currentValue, targetValue)),
     text    |-> FracFloor(Progress(currentValue, targetValue))]

\* GoalProgressCard as first defined: Math.min(progress, 100)
GoalProgressCard(currentValue, targetValue) ==
    [width |-> FracMin100(Progress(currentValue, <<targetValue>>)),
     text  |-> FracFloor(Progress(currentValue, <<targetValue>>))]

\* GoalProgressCard as defined the second time: currentValue < 0 ? 0 : Math.min(100, progress)
GoalProgressCardLater(currentValue, targetValue) ==
    [width |-> IF currentValue < 0 THEN Frac(0, 1)
               ELSE FracMin100(Progress(currentValue, <<targetValue>>)),
     text  |-> FracFloor(Progress(currentValue, <<targetValue>>))]

\* GoalsView.activeGoals: a card for every goal that is a positive number;
\* <<>> is no card
GoalsViewCard(currentValue, goal) ==
    IF IsPositiveNumber(goal) THEN <<GoalProgressCard(currentValue, goal[1])>> ELSE <<>>

GoalsViewCardLater(currentValue, goal) ==
    IF IsPositiveNumber(goal) THEN <<GoalProgressCardLater(currentValue, goal[1])>> ELSE <<>>

\* setGoals(newGoals)
updateGoals(newGoals) == goals' = newGoals

---------------------------------------------------------------------------
(* Insights: src/src/App.tsx Insights.  Averages are fractions; Infinity  *)
(* and -Infinity are the fractions 1/0 and -1/0, which the comparisons     *)
(* by cross-multiplication order as the numbers are ordered.               *)

Infinity == Frac(1, 0)

MinusInfinity == Frac(-1, 0)

\* x > y and x < y for fractions with denominators >= 0
FracGreater(x, y) == x.n * y.d > y.n * x.d

FracLess(x, y) == x.n * y.d < y.n * x.d

\* the characters of the values of enum Platform and enum FuelType
KeyChars(key) ==
    CASE key = "Uber"       -> <<"U", "b", "e", "r">>
      [] key = "99"         -> <<"9", "9">>
      [] key = "Particular" -> <<"P", "a", "r", "t", "i", "c", "u", "l", "a", "r">>
      [] key = "Etanol"     -> <<"E", "t", "a", "n", "o", "l">>
      [] key = "Gasolina"   -> <<"G", "a", "s", "o", "l", "i", "n", "a">>

\* a property key that is an integer index: decimal digits without a leading
\* zero
IsIntegerKeyText(text) ==
    /\ \A i \in 1..Len(text) : \E n \in 0..9 : text[i] = Digit(n)
    /\ Len(text) = 1 \/ text[1] # "0"

IsIntegerKey(key) == IsIntegerKeyText(KeyChars(key))

\* the keys of an object in the order in which they were first assigned
RECURSIVE FirstAssigned(_, _)
FirstAssigned(keys, seen) ==
    IF keys = <<>> THEN seen
    ELSE IF \E i \in 1..Len(seen) : seen[i] = Head(keys)
         THEN FirstAssigned(Tail(keys), seen)
         ELSE FirstAssigned(Tail(keys), Append(seen, Head(keys)))

\* Object.entries(object): the integer keys in ascending order first, then
\* the other keys in the order of their assignment
ObjectKeys(assigned) ==
    LET IsInt(k) == IsIntegerKey(k)
        NotInt(k) == ~IsIntegerKey(k)
        ints == SelectSeq(assigned, IsInt)
        Value(k) == NumberOf(KeyChars(k))
        Below(k) == Cardinality({j \in 1..Len(ints) : Value(ints[j]) < Value(k)})
    IN  [i \in 1..Len(ints) |->
            CHOOSE k \in {ints[j] : j \in 1..Len(ints)} : Below(k) = i - 1]
            \o SelectSeq(assigned, NotInt)

\* new Date(entry.date)
InsightDate(entry) == ParseISO(entry.date)

\* date.getDay(): the weekday on the host
DayOfWeek(entry) == LocalFields(InsightDate(entry)).day

\* date.toISOString().split('T')[0]
DateString(entry) == Split(IsoText(toISOString(InsightDate(entry))), "T")[1]

\* entry.type === GAIN ? entry.amount : -entry.amount
SignedAmount(entry) == IF entry.type = "GAIN" THEN entry.amount ELSE -entry.amount

\* dayStats[day] after the forEach over the entries, each entry in the
\* bucket bucket[i]
DayStatsBy(currentEntries, bucket, day) ==
    [profit |-> SumSeq([i \in 1..Len(currentEntries) |->
                           IF bucket[i] = day THEN SignedAmount(currentEntries[i]) ELSE 0]),
     days   |-> {DateString(currentEntries[i]) :
                    i \in {j \in 1..Len(currentEntries) : bucket[j] = day}}]

DayStats(currentEntries, day) ==
    DayStatsBy(currentEntries,
               [i \in 1..Len(currentEntries) |-> DayOfWeek(currentEntries[i])], day)

\* stats.days.size > 0 ? stats.profit / stats.days.size : 0
AvgProfit(dayStat) ==
    IF Cardinality(dayStat.days) > 0
    THEN Frac(dayStat.profit, Cardinality(dayStat.days))
    ELSE Frac(0, 1)

\* Object.entries(dayStats).map(...): the keys 0..6 in ascending order
DayAverages(currentEntries) ==
    [k \in 1..7 |-> [day |-> k - 1, avgProfit |-> AvgProfit(DayStats(currentEntries, k - 1))]]

\* list.reduce((max, current) => current[field] > max[field] ? current : max, max)
RECURSIVE ReduceMax(_, _, _)
ReduceMax(list, field, max) ==
    IF list = <<>> THEN max
    ELSE ReduceMax(Tail(list), field,
                   IF FracGreater(Head(list)[field], max[field]) THEN Head(list) ELSE max)

\* list.reduce((min, current) => current[field] < min[field] ? current : min, min)
RECURSIVE ReduceMin(_, _, _)
ReduceMin(list, field, min) ==
    IF list = <<>> THEN min
    ELSE ReduceMin(Tail(list), field,
                   IF FracLess(Head(list)[field], min[field]) THEN Head(list) ELSE min)

InsufficientData == [value |-> "-", description |-> "Dados insuficientes"]

weekDays ==
    <<"Domingo", "Segunda-feira", "Terça-feira", "Quarta-feira", "Quinta-feira",
      "Sexta-feira", "Sábado">>

mostProfitableDay(currentEntries) ==
    ReduceMax(DayAverages(currentEntries), "avgProfit",
              [day |-> -1, avgProfit |-> MinusInfinity])

MostProfitableDayResultOf(max) ==
    IF max.day # -1 /\ FracPositive(max.avgProfit)
    THEN [value |-> weekDays[max.day + 1], description |-> max.avgProfit]
    ELSE InsufficientData

mostProfitableDayResult(currentEntries) ==
    MostProfitableDayResultOf(mostProfitableDay(currentEntries))

\* e.tripCount && e.tripCount > 0
HasTrips(e) == e.tripCount # <<>> /\ e.tripCount[1] > 0

\* the gains counted for the revenue per trip
PlatformTrips(currentEntries) ==
    LET Counted(e) == /\ e.type = "GAIN"
                      /\ e.isReward # <<TRUE>>
                      /\ e.platform # <<>>
                      /\ HasTrips(e)
    IN  SelectSeq(currentEntries, Counted)

\* the gains counted for the most used platform
PlatformUses(currentEntries) ==
    LET Counted(e) == e.type = "GAIN" /\ e.platform # <<>> /\ HasTrips(e)
    IN  SelectSeq(currentEntries, Counted)

\* the fuel expenses counted for the cost per km
FuelUses(currentEntries) ==
    LET Counted(e) == /\ e.type = "EXPENSE"
                      /\ e.category = <<"FUEL">>
                      /\ e.fuelDetails # <<>>
    IN  SelectSeq(currentEntries, Counted)

\* the sum of values[i] over the entries whose group is key
GroupSum(groups, values, key) ==
    SumSeq([i \in 1..Len(groups) |-> IF groups[i] = key THEN values[i] ELSE 0])

PlatformOf(list) == [i \in 1..Len(list) |-> list[i].platform[1]]

FuelOf(list) == [i \in 1..Len(list) |-> list[i].fuelDetails[1].fuelType]

AmountOf(list) == [i \in 1..Len(list) |-> list[i].amount]

TripsOf(list) == [i \in 1..Len(list) |-> list[i].tripCount[1]]

DistanceOf(list) == [i \in 1..Len(list) |-> list[i].fuelDetails[1].distanceDriven]

\* stats.trips > 0 ? stats.revenue / stats.trips : 0
RevenuePerTrip(revenue, trips) == IF trips > 0 THEN Frac(revenue, trips) ELSE Frac(0, 1)

\* stats.distance > 0 ? stats.cost / stats.distance : Infinity
CostPerKm(cost, distance) == IF distance > 0 THEN Frac(cost, distance) ELSE Infinity

\* Object.entries(platformStats).map(...) over the counted gains
PlatformPerformanceOf(list, keys) ==
    [k \in 1..Len(keys) |->
        [platform |-> <<keys[k]>>,
         revenuePerTrip |-> RevenuePerTrip(GroupSum(PlatformOf(list), AmountOf(list), keys[k]),
                                           GroupSum(PlatformOf(list), TripsOf(list), keys[k]))]]

platformPerformance(currentEntries) ==
    PlatformPerformanceOf(PlatformTrips(currentEntries),
        ObjectKeys(FirstAssigned(PlatformOf(PlatformTrips(currentEntries)), <<>>)))

bestPlatform(currentEntries) ==
    ReduceMax(platformPerformance(currentEntries), "revenuePerTrip",
              [platform |-> <<>>, revenuePerTrip |-> Frac(-1, 1)])

bestPlatformResult(currentEntries) ==
    IF bestPlatform(currentEntries).platform # <<>>
    THEN [value |-> bestPlatform(currentEntries).platform[1],
          description |-> bestPlatform(currentEntries).revenuePerTrip]
    ELSE InsufficientData

\* Object.entries(fuelStats).map(...) over the counted fuel expenses
FuelPerformanceOf(list, keys) ==
    [k \in 1..Len(keys) |->
        [fuel |-> <<keys[k]>>,
         costPerKm |-> CostPerKm(GroupSum(FuelOf(list), AmountOf(list), keys[k]),
                                 GroupSum(FuelOf(list), DistanceOf(list), keys[k]))]]

fuelPerformance(currentEntries) ==
    FuelPerformanceOf(FuelUses(currentEntries),
        ObjectKeys(FirstAssigned(FuelOf(FuelUses(currentEntries)), <<>>)))

mostEfficientFuel(currentEntries) ==
    ReduceMin(fuelPerformance(currentEntries), "costPerKm",
              [fuel |-> <<>>, costPerKm |-> Infinity])

mostEfficientFuelResult(currentEntries) ==
    IF mostEfficientFuel(currentEntries).fuel # <<>>
       /\ mostEfficientFuel(currentEntries).costPerKm # Infinity
    THEN [value |-> mostEfficientFuel(currentEntries).fuel[1],
          description |-> mostEfficientFuel(currentEntries).costPerKm]
    ELSE InsufficientData

\* Object.entries(platformTripCount) over the counted gains
PlatformTripCountOf(list, keys) ==
    [k \in 1..Len(keys) |->
        [platform |-> <<keys[k]>>,
         trips |-> Frac(GroupSum(PlatformOf(list), TripsOf(list), keys[k]), 1)]]

platformTripCount(currentEntries) ==
    PlatformTripCountOf(PlatformUses(currentEntries),
        ObjectKeys(FirstAssigned(PlatformOf(PlatformUses(currentEntries)), <<>>)))

mostUsedPlatformEntry(currentEntries) ==
    ReduceMax(platformTripCount(currentEntries), "trips",
              [platform |-> <<>>, trips |-> Frac(-1, 1)])

mostUsedPlatformResult(currentEntries) ==
    IF mostUsedPlatformEntry(currentEntries).platform # <<>>
    THEN [value |-> mostUsedPlatformEntry(currentEntries).platform[1],
          description |-> mostUsedPlatformEntry(currentEntries).trips]
    ELSE InsufficientData

---------------------------------------------------------------------------
(* Forms: src/src/App.tsx AddEntryForm, ShiftManager.  A form is the record *)
(* of what the user typed into its fields; a number field holds the number *)
(* parsed from it, 0 standing for an empty or non-numeric field.  Money is *)
(* counted in cents.                                                       *)

DateMissing == "Por favor, selecione uma data para o lançamento."

FuelDetailsInvalid ==
    "Por favor, preencha todos os detalhes do combustível com valores válidos."

ShiftIncomplete == "Por favor, preencha a data, início e fim da jornada."

\* alert(message)
alert(message) == alerted' = <<message>>

\* the handler returns without having called alert()
NoAlert == alerted' = <<>>

IsFuel(form) == form.type = "EXPENSE" /\ form.category = "FUEL"

\* x.toFixed(2) of the quotient a / b >= 0, in cents: the nearest cent, the
\* larger one of two equally near
ToFixed2(a, b) == (2 * a + b) \div (2 * b)

\* the amount state at submission.  The auto-amount effect has run after the
\* last change of a field: with the fuel category chosen the amount is the
\* computed total, and without three positive details it is cleared unless an
\* entry is being edited
AmountField(form, isEditing) ==
    IF IsFuel(form)
    THEN IF form.pricePerLiter > 0 /\ form.avgConsumption > 0 /\ form.distanceDriven > 0
         THEN ToFixed2(form.distanceDriven * form.pricePerLiter, form.avgConsumption)
         ELSE IF ~isEditing THEN 0 ELSE form.amount
    ELSE form.amount

\* the trip count state at submission: ticking the reward box clears it
TripCountField(form) == IF form.isReward THEN <<>> ELSE form.tripCount

\* if (!numericAmount || numericAmount <= 0) return, accepting a zero amount
AmountRejectedBelowZero(numericAmount) == numericAmount < 0

\* if (!numericAmount || numericAmount <= 0) return
AmountRejected(numericAmount) == numericAmount <= 0

\* !priceNum || priceNum <= 0 || !consumptionNum || ... || distanceNum <= 0
FuelDetailsRejected(form) ==
    \/ form.pricePerLiter <= 0
    \/ form.avgConsumption <= 0
    \/ form.distanceDriven <= 0

\* the entryData of AddEntryForm.handleSubmit: every key is present, the ones
\* that do not apply holding undefined
EntryData(form, numericAmount) ==
    [type     |-> form.type,
     amount   |-> numericAmount,
     date     |-> toNaiveUTCISOString(
                      NewDate(form.date[1], form.date[2] - 1, form.date[3], 12, 0, 0, 0)),
     category |-> IF form.type = "EXPENSE" THEN <<form.category>> ELSE <<>>,
     fuelDetails |-> IF IsFuel(form)
                     THEN <<[fuelType       |-> form.fuelType,
                             pricePerLiter  |-> form.pricePerLiter,
                             avgConsumption |-> form.avgConsumption,
                             distanceDriven |-> form.distanceDriven]>>
                     ELSE <<>>,
     platform |-> IF form.type = "GAIN" THEN <<form.platform>> ELSE <<>>,
     isReward |-> IF form.type = "GAIN" THEN <<form.isReward>> ELSE <<>>,
     tripCount |-> IF form.type = "GAIN" /\ ~form.isReward
                   THEN TripCountField(form) ELSE <<>>]

\* {...entryToEdit, ...entryData} where a key of entryData that holds
\* undefined would leave the value of entryToEdit in place
SpreadKeepingDefined(entryToEdit, entryData) ==
    [k \in DOMAIN entryToEdit |->
        IF k = "id" THEN entryToEdit[k]
        ELSE IF k \in {"type", "amount", "date"} THEN entryData[k]
        ELSE IF entryData[k] = <<>> THEN entryToEdit[k] ELSE entryData[k]]

\* {...entryToEdit, ...entryData}: every key of entryData overrides
Spread(entryToEdit, entryData) == [id |-> entryToEdit.id] @@ entryData

\* the fields after the effect that loads entryToEdit into the form
LoadedForm(entry) ==
    [date     |-> <<entry.date.Y, entry.date.M, entry.date.D>>,
     type     |-> entry.type,
     amount   |-> entry.amount,
     category |-> IF entry.category # <<>> THEN entry.category[1] ELSE "FUEL",
     fuelType |-> IF entry.fuelDetails # <<>> THEN entry.fuelDetails[1].fuelType
                  ELSE "Etanol",
     pricePerLiter  |-> IF entry.fuelDetails # <<>>
                        THEN entry.fuelDetails[1].pricePerLiter ELSE 0,
     avgConsumption |-> IF entry.fuelDetails # <<>>
                        THEN entry.fuelDetails[1].avgConsumption ELSE 0,
     distanceDriven |-> IF entry.fuelDetails # <<>>
                        THEN entry.fuelDetails[1].distanceDriven ELSE 0,
     platform  |-> IF entry.platform # <<>> THEN entry.platform[1] ELSE "Uber",
     isReward  |-> entry.isReward = <<TRUE>>,
     tripCount |-> entry.tripCount]

\* AddEntryForm.handleSubmit, with the entry being edited (<<>> when creating)
EntryFormSubmit(form, entryToEdit) ==
    IF form.date = <<>>
    THEN alert(DateMissing) /\ UNCHANGED entries
    ELSE IF AmountRejected(AmountField(form, entryToEdit # <<>>))
    THEN NoAlert /\ UNCHANGED entries
    ELSE IF IsFuel(form) /\ FuelDetailsRejected(form)
    THEN alert(FuelDetailsInvalid) /\ UNCHANGED entries
    ELSE /\ NoAlert
         /\ IF entryToEdit # <<>>
            THEN updateEntry(Spread(entryToEdit[1],
                                    EntryData(form, AmountField(form, TRUE))))
            ELSE addEntry(EntryData(form, AmountField(form, FALSE)))

\* date.setDate(date.getDate() + 1)
NextDay(t) == setDate(t, LocalFields(t).date + 1)

\* the end is left on the day of the form
RollOverNever(endDate, startDate) == endDate

\* if (endDate < startDate) endDate.setDate(endDate.getDate() + 1)
RollOver(endDate, startDate) ==
    IF Before(endDate, startDate) THEN NextDay(endDate) ELSE endDate

\* a pause that starts before the shift is moved to the next day, and its end
\* once more when it then lies before its start
PauseRollover(start0, end0, shiftStartDate) ==
    LET moved == Before(start0, shiftStartDate)
        pauseStartDate == IF moved THEN NextDay(start0) ELSE start0
        pauseEndDate   == RollOver(IF moved THEN NextDay(end0) ELSE end0, pauseStartDate)
    IN  [start |-> <<toNaiveUTCISOString(pauseStartDate)>>,
         end   |-> <<toNaiveUTCISOString(pauseEndDate)>>]

\* a time field "HH:mm" is <<h, m>>; the pauses of ShiftManager.handleSubmit
ShiftFormPauses(form, shiftStartDate) ==
    LET y == form.date[1]
        m == form.date[2] - 1
        d == form.date[3]
        Filled(p) == p.start # <<>> /\ p.end # <<>>
        kept == SelectSeq(form.pauses, Filled)
        Stored(p) ==
            PauseRollover(NewDate(y, m, d, p.start[1], p.start[2], 0, 0),
                          NewDate(y, m, d, p.end[1], p.end[2], 0, 0),
                          shiftStartDate)
    IN  [i \in 1..Len(kept) |-> Stored(kept[i])]

\* a time field holding the text "HH:mm", as the handler reads it
TimeField(text) == IF text = <<>> THEN <<>> ELSE SplitNumbers(text, ":")

\* the fields after the effect that loads shiftToEdit into the form
LoadedShiftForm(shift) ==
    [date      |-> SplitNumbers(Split(IsoText(shift.start[1]), "T")[1], "-"),
     startTime |-> TimeField(formatTimeFromNaiveUTC(shift.start[1])),
     endTime   |-> IF shift.end # <<>>
                   THEN TimeField(formatTimeFromNaiveUTC(shift.end[1])) ELSE <<>>,
     pauses    |-> [i \in 1..Len(shift.pauses) |->
                      [start |-> TimeField(formatTimeFromNaiveUTC(shift.pauses[i].start[1])),
                       end   |-> TimeField(formatTimeFromNaiveUTC(shift.pauses[i].end[1]))]]]

\* ShiftManager.handleSubmit, with the shift being edited (<<>> when creating)
ShiftFormSubmit(form, shiftToEdit) ==
    LET y == form.date[1]
        m == form.date[2] - 1
        d == form.date[3]
        shiftStartDate == NewDate(y, m, d, form.startTime[1], form.startTime[2], 0, 0)
        shiftEndDate   == RollOver(NewDate(y, m, d, form.endTime[1], form.endTime[2], 0, 0),
                                   shiftStartDate)
        newShiftData ==
            [start  |-> <<toNaiveUTCISOString(shiftStartDate)>>,
             end    |-> <<toNaiveUTCISOString(shiftEndDate)>>,
             pauses |-> ShiftFormPauses(form, shiftStartDate)]
    IN  IF form.date = <<>> \/ form.startTime = <<>> \/ form.endTime = <<>>
        THEN alert(ShiftIncomplete) /\ UNCHANGED shifts
        ELSE /\ NoAlert
             /\ IF shiftToEdit # <<>>
                THEN updateShift([id |-> shiftToEdit[1].id] @@ newShiftData)
                ELSE addShift(newShiftData)

---------------------------------------------------------------------------
(* Settings: src/src/App.tsx Settings.handleFileChange.  A JSON value is a  *)
(* record of its type and content; the text of a file is <<>> when          *)
(* JSON.parse throws and <<the value parsed>> otherwise.                    *)

JsonNull == [type |-> "null"]

JsonNumber(n) == [type |-> "number", value |-> n]

JsonString(str) == [type |-> "string", value |-> str]

JsonArray(items) == [type |-> "array", items |-> items]

\* an object is given by the record of its members
JsonObject(members) == [type |-> "object", members |-> members]

\* key in value: a TypeError for a value that is not an object
InThrows(value) == value.type \notin {"object", "array"}

\* key in value, for the keys 'entries', 'shifts', 'goals'
In(key, value) == value.type = "object" /\ key \in DOMAIN value.members

\* Array.isArray(value)
IsArray(value) == value.type = "array"

\* typeof value
TypeOf(value) == IF value.type \in {"object", "array", "null"} THEN "object" ELSE value.type

\* the value a state setter receives: an array as the sequence of its items,
\* an object as the record of its members, anything else as it is
SetterValue(value) ==
    IF value.type = "object" THEN value.members
    ELSE value

ImportFailed == "Falha ao importar o backup"

ImportDone == "Backup importado com sucesso!"

\* the validation of the parsed file: true when handleFileChange throws
ImportThrows(text) ==
    IF text = <<>> THEN TRUE
    ELSE IF InThrows(text[1]) THEN TRUE
    ELSE IF ~(In("entries", text[1]) /\ In("shifts", text[1]) /\ In("goals", text[1]))
    THEN TRUE
    ELSE \/ ~IsArray(text[1].members.entries)
         \/ ~IsArray(text[1].members.shifts)
         \/ TypeOf(text[1].members.goals) # "object"

\* reader.onload of Settings.handleFileChange with the text of the file and
\* the answer given to window.confirm
handleFileChange(text, confirmed) ==
    IF ImportThrows(text)
    THEN alert(ImportFailed) /\ UNCHANGED <<entries, shifts, goals>>
    ELSE IF confirmed
    THEN /\ entries' = text[1].members.entries.items
         /\ shifts' = text[1].members.shifts.items
         /\ goals' = SetterValue(text[1].members.goals)
         /\ alert(ImportDone)
    ELSE NoAlert /\ UNCHANGED <<entries, shifts, goals>>

---------------------------------------------------------------------------
(* Host environments and user inputs *)

\* records (entries and shifts together) the store holds at most
MaxRecords == 2

\* pauses of a shift given to the duration calculator
MaxPauses == 2

FixedZone(std) ==
    [std |-> std, dst |-> FALSE, dstStart |-> Epoch, dstEnd |-> Epoch, shift |-> 0]

\* America/Sao_Paulo (UTC-3, no daylight saving time since 2019)
SaoPaulo == FixedZone(-180)

\* Pacific/Kiritimati (UTC+14)
Kiritimati == FixedZone(840)

UTCZone == FixedZone(0)

\* America/New_York in 2025: UTC-5, clocks one hour ahead from 9 March 07:00 UTC
\* to 2 November 06:00 UTC
NewYork ==
    [std |-> -300, dst |-> TRUE, shift |-> 60,
     dstStart |-> DateUTC(2025, 2, 9, 7, 0, 0, 0),
     dstEnd   |-> DateUTC(2025, 10, 2, 6, 0, 0, 0)]

Zones == {SaoPaulo, Kiritimati, UTCZone, NewYork}

StoreZones == {SaoPaulo, Kiritimati}

\* clock readings of the period specification: months of 29, 28, 30 and 31
\* days, the turn of the year, a Sunday, the turn of a month, and the days
\* around a daylight-saving transition
Clock ==
    {DateUTC(2024, 1, 29, 12, 0, 0, 0),      \* Thu 29 Feb 2024
     DateUTC(2024, 11, 31, 12, 0, 0, 0),     \* Tue 31 Dec 2024
     DateUTC(2025, 1, 28, 23, 0, 0, 0),      \* Fri 28 Feb 2025
     DateUTC(2025, 0, 1, 1, 30, 0, 0),       \* Wed  1 Jan 2025
     DateUTC(2025, 0, 5, 15, 0, 0, 0),       \* Sun  5 Jan 2025
     DateUTC(2025, 2, 1, 0, 0, 0, 0),        \* Sat  1 Mar 2025, UTC midnight
     DateUTC(2025, 2, 9, 12, 0, 0, 0),       \* Sun  9 Mar 2025
     DateUTC(2025, 2, 10, 3, 59, 59, 999),   \* Mon 10 Mar 2025
     DateUTC(2025, 2, 10, 14, 0, 0, 0),
     DateUTC(2025, 10, 3, 4, 59, 59, 999)}   \* Mon  3 Nov 2025

\* clock readings of the store specification
StoreClock ==
    {DateUTC(2025, 2, 9, 2, 30, 0, 0),
     DateUTC(2025, 2, 9, 13, 0, 0, 0)}

FormDates == {<<2025, 3, 8>>, <<2025, 3, 9>>}

CustomDates == {<<>>, <<2025, 3, 9>>}

StorePeriods == {"today", "custom"}

BlankEntryForm ==
    [date |-> <<>>, type |-> "GAIN", amount |-> 0, category |-> "FUEL",
     fuelType |-> "Etanol", pricePerLiter |-> 0, avgConsumption |-> 0,
     distanceDriven |-> 0, platform |-> "Uber", isReward |-> FALSE,
     tripCount |-> <<>>]

\* a gain of 100 for 2 trips
GainForm(date) ==
    [BlankEntryForm EXCEPT !.date = date, !.amount = 100, !.tripCount = <<2>>]

\* a reward of 40; the trip count typed before the reward box was ticked
RewardForm(date) ==
    [BlankEntryForm EXCEPT !.date = date, !.amount = 40, !.isReward = TRUE,
                           !.tripCount = <<3>>]

OtherExpenseForm(date) ==
    [BlankEntryForm EXCEPT !.date = date, !.type = "EXPENSE", !.amount = 40,
                           !.category = "OTHER"]

\* 60 km at 10 km/l and 5 per litre: the form computes the amount 30
FuelForm(date) ==
    [BlankEntryForm EXCEPT !.date = date, !.type = "EXPENSE", !.amount = 30,
                           !.pricePerLiter = 5, !.avgConsumption = 10,
                           !.distanceDriven = 60]

EntryForms ==
    {GainForm(d) : d \in FormDates}
        \cup {RewardForm(<<2025, 3, 9>>), OtherExpenseForm(<<2025, 3, 9>>),
              FuelForm(<<2025, 3, 9>>),
              \* rejected: no amount, a negative amount, no date, fuel details
              \* incomplete
              [GainForm(<<2025, 3, 9>>) EXCEPT !.amount = 0],
              [OtherExpenseForm(<<2025, 3, 9>>) EXCEPT !.amount = -5],
              GainForm(<<>>),
              [FuelForm(<<2025, 3, 9>>) EXCEPT !.avgConsumption = 0]}

\* the forms of an edit that leaves the loaded fields as they are but for the
\* expense category or the reward box
EditedForms(entry) ==
    IF entry.type = "EXPENSE"
    THEN {[LoadedForm(entry) EXCEPT !.category = c] : c \in {"FUEL", "OTHER"}}
    ELSE {[LoadedForm(entry) EXCEPT !.isReward = r] : r \in BOOLEAN}

ShiftForm(date, startTime, endTime, pauses) ==
    [date |-> date, startTime |-> startTime, endTime |-> endTime, pauses |-> pauses]

ShiftForms ==
    {ShiftForm(<<2025, 3, 9>>, <<0, 30>>, <<4, 0>>, <<>>),
     ShiftForm(<<2025, 3, 9>>, <<0, 30>>, <<4, 0>>,
               << [start |-> <<1, 0>>, end |-> <<1, 30>>],
                  [start |-> <<2, 0>>, end |-> <<>>] >>),
     \* the shift ends and the pause lies after midnight
     ShiftForm(<<2025, 3, 8>>, <<22, 0>>, <<2, 0>>,
               << [start |-> <<1, 0>>, end |-> <<1, 30>>] >>),
     \* rejected: no end time, no start time, no date
     ShiftForm(<<2025, 3, 9>>, <<8, 0>>, <<>>, <<>>),
     ShiftForm(<<2025, 3, 9>>, <<>>, <<10, 0>>, <<>>),
     ShiftForm(<<>>, <<8, 0>>, <<10, 0>>, <<>>)}

\* days of the rollover specification: the days before and of the change to
\* daylight saving time, the day of the change back, the last day of the year
RolloverDates == {<<2025, 3, 8>>, <<2025, 3, 9>>, <<2025, 11, 2>>, <<2025, 12, 31>>}

\* start and end times, with the hours around the clock changes
RolloverTimes == {<<0, 30>>, <<1, 30>>, <<2, 30>>, <<3, 0>>, <<3, 15>>, <<12, 0>>, <<23, 30>>}

RolloverPauseTimes == {<<0, 30>>, <<1, 30>>, <<2, 30>>, <<3, 0>>, <<13, 0>>, <<23, 45>>}

\* no pause, or one pause
RolloverPauses ==
    {<<>>} \cup {<<[start |-> a, end |-> b]>> : a \in RolloverPauseTimes,
                                                b \in RolloverPauseTimes}

RolloverForms ==
    {ShiftForm(date, startTime, endTime, pauses) :
        date \in RolloverDates, startTime \in RolloverTimes,
        endTime \in RolloverTimes, pauses \in RolloverPauses}

\* bounds of the shifts given to the duration calculator: absent, 9 March
\* 08:00 or 10 March 01:00
DurTimes ==
    {<<>>,
     <<toISOString(DateUTC(2025, 2, 9, 8, 0, 0, 0))>>,
     <<toISOString(DateUTC(2025, 2, 10, 1, 0, 0, 0))>>}

\* bounds of their pauses: absent, 9 March 08:00 or 12:00, or 10 March 06:00
DurPauseTimes ==
    {<<>>,
     <<toISOString(DateUTC(2025, 2, 9, 8, 0, 0, 0))>>,
     <<toISOString(DateUTC(2025, 2, 9, 12, 0, 0, 0))>>,
     <<toISOString(DateUTC(2025, 2, 10, 6, 0, 0, 0))>>}

DurPauses == [start : DurPauseTimes, end : DurPauseTimes]

DurPauseLists == UNION {[1..n -> DurPauses] : n \in 0..MaxPauses}

DurShifts ==
    [id : {toISOString(Epoch)}, start : DurTimes, end : DurTimes, pauses : DurPauseLists]

---------------------------------------------------------------------------
(* Actions *)

\* dates given to the time normalization: days of present years, a leap day,
\* the last day of 1999, a day of the year 50 and one of the year 10000, each
\* at five times of day
FmtDays ==
    {MakeDay(50, 5, 15), MakeDay(1999, 11, 31), MakeDay(2024, 1, 29),
     MakeDay(2025, 2, 8), MakeDay(2025, 2, 9), MakeDay(2025, 11, 31),
     MakeDay(10000, 0, 1)}

FmtTimes ==
    {MakeTime(0, 0, 0, 0), MakeTime(1, 30, 0, 0), MakeTime(6, 45, 30, 500),
     MakeTime(12, 0, 0, 0), MakeTime(23, 59, 59, 999)}

FmtDates == {Instant(d, t) : d \in FmtDays, t \in FmtTimes}

\* useLocalStorage('driver-goals', {daily: {}, weekly: {}, monthly: {}})
NoGoal == [profit |-> <<>>, revenue |-> <<>>]

DefaultGoals == [daily |-> NoGoal, weekly |-> NoGoal, monthly |-> NoGoal]

\* goals saved with the goals form: all six set, or some left empty or zero
Goal(profit, revenue) == [profit |-> profit, revenue |-> revenue]

GoalForms ==
    {DefaultGoals,
     [daily |-> Goal(<<100>>, <<200>>), weekly |-> Goal(<<500>>, <<1000>>),
      monthly |-> Goal(<<2000>>, <<4000>>)],
     [daily |-> Goal(<<0>>, <<>>), weekly |-> Goal(<<500>>, <<>>),
      monthly |-> NoGoal]}

\* custom bounds of the goal selection: empty, the same day, the next day,
\* two days on and a day of the next month
GoalDates == {<<>>, <<2025, 3, 9>>, <<2025, 3, 10>>, <<2025, 3, 11>>, <<2025, 4, 30>>}

\* values given to the progress cards
CardValues == {-150, -1, 0, 1, 33, 50, 99, 100, 101, 250}

CardTargets == {<<>>, <<-10>>, <<0>>, <<3>>, <<50>>, <<100>>}

\* an entry and a shift as a backup holds them
BackupEntry ==
    [id |-> toISOString(DateUTC(2025, 2, 1, 10, 0, 0, 0)),
     type |-> "GAIN", amount |-> 100,
     date |-> toISOString(DateUTC(2025, 2, 1, 12, 0, 0, 0)),
     category |-> <<>>, fuelDetails |-> <<>>, platform |-> <<"Uber">>,
     isReward |-> <<FALSE>>, tripCount |-> <<2>>]

BackupShift ==
    [id     |-> toISOString(DateUTC(2025, 2, 1, 11, 0, 0, 0)),
     start  |-> <<toISOString(DateUTC(2025, 2, 1, 8, 0, 0, 0))>>,
     end    |-> <<toISOString(DateUTC(2025, 2, 1, 10, 0, 0, 0))>>,
     pauses |-> <<>>]

Backup(entries_, shifts_, goals_) ==
    <<JsonObject([entries |-> entries_, shifts |-> shifts_, goals |-> goals_])>>

\* the texts of the files given to the import: a backup of an empty and of a
\* filled store, and texts that are no backup
BackupFiles ==
    {Backup(JsonArray(<<>>), JsonArray(<<>>), JsonObject(DefaultGoals)),
     Backup(JsonArray(<<BackupEntry>>), JsonArray(<<BackupShift>>),
            JsonObject([DefaultGoals EXCEPT !.daily = Goal(<<100>>, <<200>>)])),
     \* not JSON
     <<>>,
     \* JSON, but no object
     <<JsonNull>>, <<JsonNumber(7)>>, <<JsonString("backup")>>, <<JsonArray(<<>>)>>,
     \* a key is missing
     <<JsonObject([entries |-> JsonArray(<<>>), shifts |-> JsonArray(<<>>)])>>,
     <<JsonObject([entries |-> JsonArray(<<>>), goals |-> JsonObject(DefaultGoals)])>>,
     <<JsonObject([shifts |-> JsonArray(<<>>), goals |-> JsonObject(DefaultGoals)])>>,
     \* entries or shifts is no array
     Backup(JsonObject([id |-> JsonNumber(1)]), JsonArray(<<>>), JsonObject(DefaultGoals)),
     Backup(JsonArray(<<>>), JsonObject([id |-> JsonNumber(1)]), JsonObject(DefaultGoals)),
     Backup(JsonNull, JsonArray(<<>>), JsonObject(DefaultGoals)),
     \* goals is no object mapping
     Backup(JsonArray(<<>>), JsonArray(<<>>), JsonNumber(100)),
     Backup(JsonArray(<<>>), JsonArray(<<>>), JsonString("100")),
     Backup(JsonArray(<<>>), JsonArray(<<>>), JsonNull),
     Backup(JsonArray(<<BackupEntry>>), JsonArray(<<>>), JsonArray(<<>>))}

\* entries the store holds at most in the insights specification
MaxInsightEntries == 3

\* a gain of 100 for 2 trips on the platform and day given
PlatformGain(platform, date) ==
    [GainForm(date) EXCEPT !.platform = platform]

\* 60 km with the fuel given, the form computing the amount 30
FuelExpense(fuelType, date) ==
    [FuelForm(date) EXCEPT !.fuelType = fuelType]

\* forms of the insights specification, on Sunday 9, Monday 10 and Sunday 16
\* March 2025: gains that tie between platforms and weekdays, a larger gain,
\* a reward, fuel expenses that tie, another expense
InsightForms ==
    {PlatformGain("Uber", <<2025, 3, 9>>),
     PlatformGain("99", <<2025, 3, 10>>),
     PlatformGain("Particular", <<2025, 3, 16>>),
     [PlatformGain("Uber", <<2025, 3, 10>>) EXCEPT !.amount = 150, !.tripCount = <<1>>],
     RewardForm(<<2025, 3, 9>>),
     FuelExpense("Etanol", <<2025, 3, 10>>),
     FuelExpense("Gasolina", <<2025, 3, 9>>),
     [OtherExpenseForm(<<2025, 3, 9>>) EXCEPT !.amount = 100]}

\* clock readings of the specification of today's entries: early, before
\* and after noon and late on 10 March 2025 in UTC, and a day in November
TodayClock ==
    {DateUTC(2025, 2, 10, 0, 30, 0, 0),
     DateUTC(2025, 2, 10, 5, 0, 0, 0),
     DateUTC(2025, 2, 10, 11, 0, 0, 0),
     DateUTC(2025, 2, 10, 12, 0, 0, 0),
     DateUTC(2025, 2, 10, 15, 30, 0, 0),
     DateUTC(2025, 2, 10, 23, 30, 0, 0),
     DateUTC(2025, 10, 2, 13, 0, 0, 0)}

\* the periods that end at the current instant
RollingPeriods == {"all", "last_7_days", "last_30_days"}

\* forms submitted with the proposed date
TodayForms == {GainForm(<<>>), RewardForm(<<>>), OtherExpenseForm(<<>>)}

(* Service worker: src/public/sw.js.  A url is the record of its scheme,    *)
(* host and path; a cache holds one entry [url, method, status] per url.    *)

CACHE_NAME == "constant-driver-cache-v3"

\* the cache of the earlier revision of the worker
OLD_CACHE_NAME == "constant-driver-cache-v2"

Url(scheme, host, path) == [scheme |-> scheme, host |-> host, path |-> path]

\* a path of the list, resolved against the origin of the worker
AppUrl(path) == Url("https", "app", path)

URLS_TO_CACHE ==
    {AppUrl("/"),
     AppUrl("/manifest.json"),
     AppUrl("/icons/icon-192x192.png"),
     AppUrl("/icons/icon-512x512.png"),
     Url("https", "cdn.tailwindcss.com", "/")}

SchemeChars(scheme) ==
    CASE scheme = "https" -> <<"h", "t", "t", "p", "s">>
      [] scheme = "http" -> <<"h", "t", "t", "p">>
      [] scheme = "chrome-extension" ->
            <<"c", "h", "r", "o", "m", "e", "-", "e", "x", "t", "e", "n", "s", "i", "o", "n">>

\* event.request.url.startsWith('http')
StartsWithHttp(url) ==
    LET chars == SchemeChars(url.scheme)
    IN  Len(chars) >= 4 /\ SubSeq(chars, 1, 4) = <<"h", "t", "t", "p">>

CacheEntry(url, method, status) == [url |-> url, method |-> method, status |-> status]

\* caches.open(name): the cache of that name, created empty when there is none
Open(storage, name) == IF name \in DOMAIN storage THEN storage[name] ELSE {}

\* cache.match(request): <<>> is undefined
Match(cache, url) ==
    IF \E e \in cache : e.url = url
    THEN <<CHOOSE e \in cache : e.url = url>>
    ELSE <<>>

\* cache.put(request, response) once it has settled: the entry of the url is replaced
Put(cache, entry) == {e \in cache : e.url # entry.url} \cup {entry}

\* the storage with the cache of the name given replaced
WithCache(storage, name, cache) ==
    [n \in DOMAIN storage \cup {name} |-> IF n = name THEN cache ELSE storage[n]]

\* the worker before its install event, with no cache yet
WorkerParsed ==
    /\ phase = "parsed"
    /\ caches = << >>
    /\ puts = {}
    /\ answered = {}
    /\ lastAnswer = <<>>

\* install: cache.addAll(URLS_TO_CACHE) stores every response or, when one
\* request fails or is not answered with 200, rejects and stores none, and
\* the worker is not installed
install(outcome) ==
    /\ phase = "parsed"
    /\ IF outcome = <<200>>
       THEN /\ caches' = WithCache(caches, CACHE_NAME,
                                {CacheEntry(u, "GET", 200) : u \in URLS_TO_CACHE})
            /\ phase' = "installed"
       ELSE UNCHANGED <<caches, phase>>
    /\ UNCHANGED <<puts, answered, lastAnswer>>

\* activate: every cache that is not on the whitelist is deleted
activate ==
    LET cacheWhitelist == {CACHE_NAME}
    IN  /\ phase = "installed"
        /\ phase' = "activated"
        /\ caches' = [n \in DOMAIN caches \cap cacheWhitelist |-> caches[n]]
        /\ UNCHANGED <<puts, answered, lastAnswer>>

\* what the page receives: the source is "cache", "network" or "error"
Answer(url, method, source) ==
    [url |-> url, method |-> method, source |-> source,
     known |-> url \in answered \/ (phase # "parsed" /\ url \in URLS_TO_CACHE)]

\* fetch: outcome is <<>> when fetch() rejects and <<status>> otherwise.  A
\* request that is no GET over http is left to the browser; for the others
\* the cached response is returned when there is one and the response of the
\* network otherwise, and a response with status 200 is handed to cache.put,
\* which is not awaited
fetch(url, method, outcome) ==
    LET cachedResponse == Match(Open(caches, CACHE_NAME), url)
        source == IF cachedResponse # <<>> THEN "cache"
                  ELSE IF outcome # <<>> THEN "network" ELSE "error"
    IN  /\ phase = "activated"
        /\ IF method # "GET" \/ ~StartsWithHttp(url)
           THEN /\ lastAnswer' = <<Answer(url, method,
                                    IF outcome # <<>> THEN "network" ELSE "error")>>
                /\ UNCHANGED <<caches, puts, answered>>
           ELSE /\ caches' = WithCache(caches, CACHE_NAME, Open(caches, CACHE_NAME))
                /\ puts' = IF outcome = <<200>>
                           THEN puts \cup {CacheEntry(url, method, 200)} ELSE puts
                /\ answered' = IF outcome = <<200>> THEN answered \cup {url} ELSE answered
                /\ lastAnswer' = <<Answer(url, method, source)>>
        /\ UNCHANGED phase

\* a cache.put() settles: the entry is written, or the promise rejects (the
\* body of the response breaks off, the quota is exceeded) and the cache is
\* left as it was
putSettles(entry, written) ==
    /\ entry \in puts
    /\ puts' = puts \ {entry}
    /\ caches' = IF written
                 THEN WithCache(caches, CACHE_NAME, Put(Open(caches, CACHE_NAME), entry))
                 ELSE caches
    /\ UNCHANGED <<phase, answered, lastAnswer>>

\* the urls requested: one of the list, one that is not, and one of an extension
RequestUrls == {AppUrl("/"), AppUrl("/index.tsx"), Url("chrome-extension", "ext", "/page.js")}

Methods == {"GET", "POST"}

\* fetch() rejects, or resolves with one of these statuses
Outcomes == {<<>>, <<200>>, <<404>>}

\* what CacheStorage may hold when the worker is first run
EarlierStorage ==
    {<< >>, [n \in {OLD_CACHE_NAME} |-> {CacheEntry(AppUrl("/index.html"), "GET", 200)}]}

\* records given to the store operations, and the ids they are addressed by
CallEntries ==
    {[BackupEntry EXCEPT !.id = <<>>],
     [BackupEntry EXCEPT !.id = <<>>, !.type = "EXPENSE", !.amount = 40,
                         !.date = toISOString(DateUTC(2025, 2, 9, 12, 0, 0, 0)),
                         !.category = <<"OTHER">>, !.platform = <<>>,
                         !.isReward = <<>>, !.tripCount = <<>>]}

CallShifts ==
    {[BackupShift EXCEPT !.id = <<>>],
     [BackupShift EXCEPT !.id = <<>>,
                         !.start = <<toISOString(DateUTC(2025, 2, 9, 8, 0, 0, 0))>>,
                         !.end = <<>>]}

CallIds == {toISOString(n) : n \in StoreClock}

CallGoals == {DefaultGoals, [DefaultGoals EXCEPT !.daily = Goal(<<100>>, <<200>>)]}

CallPeriods == {"today", "this_week"}

\* the record without its id, as addEntry and addShift receive it
WithoutId(r) == [k \in DOMAIN r \ {"id"} |-> r[k]]

DefaultFilter == [period |-> "today", customRange |-> [start |-> <<>>, end |-> <<>>]]

\* time passes on the host
Tick(clock) ==
    /\ \E n \in clock : Before(now, n) /\ now' = n
    /\ UNCHANGED <<entries, shifts, filter, tz, goals, calcVars, alerted>>

\* PeriodFilter: a period button is clicked
SelectPeriod(periods) ==
    /\ \E p \in periods : filter' = [filter EXCEPT !.period = p]
    /\ UNCHANGED <<entries, shifts, now, tz, goals, calcVars, alerted>>

\* PeriodFilter.handleCustomDateChange: the inputs are shown for 'custom' only
CustomDateChange ==
    /\ filter.period = "custom"
    /\ \E name \in {"start", "end"}, value \in CustomDates :
          filter' = [filter EXCEPT !.customRange[name] = value]
    /\ UNCHANGED <<entries, shifts, now, tz, goals, calcVars, alerted>>

\* the same handler with the bounds of the goal selection
GoalDateChange ==
    /\ filter.period = "custom"
    /\ \E name \in {"start", "end"}, value \in GoalDates :
          filter' = [filter EXCEPT !.customRange[name] = value]
    /\ UNCHANGED <<entries, shifts, now, tz, goals, calcVars, alerted>>

\* SetGoalsForm.handleSubmit
SaveGoals ==
    /\ \E localGoals \in GoalForms : updateGoals(localGoals)
    /\ UNCHANGED <<entries, shifts, filter, now, tz, calcVars, alerted>>

\* the two cards are rendered with the values given
RenderCards ==
    /\ cardIn # <<>>
    /\ cardOut = <<>>
    /\ cardOut' = <<[summary    |-> SummaryCard(cardIn[1].current, cardIn[1].target),
                     goalsView  |-> GoalsViewCard(cardIn[1].current, cardIn[1].target),
                     goalsLater |-> GoalsViewCardLater(cardIn[1].current, cardIn[1].target)]>>
    /\ UNCHANGED <<entries, shifts, filter, now, tz, goals, durVars, fmtVars, cardIn, swVars, alerted>>

\* the entry modal is submitted: the handler touches the entries only
SubmitEntry(form, entryToEdit) ==
    /\ EntryFormSubmit(form, entryToEdit)
    /\ UNCHANGED <<shifts, filter, now, tz, goals, calcVars>>

\* the shift modal is submitted: the handler touches the shifts only
SubmitShift(form, shiftToEdit) ==
    /\ ShiftFormSubmit(form, shiftToEdit)
    /\ UNCHANGED <<entries, filter, now, tz, goals, calcVars>>

\* the gain or expense modal is opened from the action button and submitted
CreateEntry ==
    /\ Len(entries) + Len(shifts) < MaxRecords
    /\ \E form \in EntryForms : SubmitEntry(form, <<>>)

\* startEdit(entry) opens the modal of the entry's type, which is submitted
EditEntry ==
    \E i \in 1..Len(entries), form \in EntryForms :
       /\ form.type = entries[i].type
       /\ SubmitEntry(form, <<entries[i]>>)

\* startEdit(entry), then only the category or the reward box is changed
\* before the form is submitted
EditLoadedEntry ==
    \E i \in 1..Len(entries) :
       \E form \in EditedForms(entries[i]) : SubmitEntry(form, <<entries[i]>>)

DeleteEntry ==
    /\ \E i \in 1..Len(entries) : deleteEntry(entries[i].id)
    /\ UNCHANGED <<shifts, filter, now, tz, goals, calcVars, alerted>>

CreateShift ==
    /\ Len(entries) + Len(shifts) < MaxRecords
    /\ \E form \in ShiftForms : SubmitShift(form, <<>>)

EditShift ==
    \E i \in 1..Len(shifts), form \in ShiftForms : SubmitShift(form, <<shifts[i]>>)

DeleteShift ==
    /\ \E i \in 1..Len(shifts) : deleteShift(shifts[i].id)
    /\ UNCHANGED <<entries, filter, now, tz, goals, calcVars, alerted>>

\* a shift is entered into the empty store
CreateRolloverShift ==
    /\ shifts = <<>>
    /\ \E form \in RolloverForms : SubmitShift(form, <<>>)

\* startEditShift(shift), and the form is submitted as it was loaded
EditLoadedShift ==
    \E i \in 1..Len(shifts) : SubmitShift(LoadedShiftForm(shifts[i]), <<shifts[i]>>)

\* the store operations called with the arguments given
CallAddEntry(entry) ==
    /\ Len(entries) < MaxRecords
    /\ addEntry(entry)
    /\ UNCHANGED <<shifts, goals, filter, now, tz, calcVars, alerted>>

CallUpdateEntry(updatedEntry) ==
    /\ updateEntry(updatedEntry)
    /\ UNCHANGED <<shifts, goals, filter, now, tz, calcVars, alerted>>

CallDeleteEntry(id) ==
    /\ deleteEntry(id)
    /\ UNCHANGED <<shifts, goals, filter, now, tz, calcVars, alerted>>

CallAddShift(shift) ==
    /\ Len(shifts) < MaxRecords
    /\ addShift(shift)
    /\ UNCHANGED <<entries, goals, filter, now, tz, calcVars, alerted>>

CallUpdateShift(updatedShift) ==
    /\ updateShift(updatedShift)
    /\ UNCHANGED <<entries, goals, filter, now, tz, calcVars, alerted>>

CallDeleteShift(id) ==
    /\ deleteShift(id)
    /\ UNCHANGED <<entries, goals, filter, now, tz, calcVars, alerted>>

CallUpdateGoals(newGoals) ==
    /\ updateGoals(newGoals)
    /\ UNCHANGED <<entries, shifts, filter, now, tz, calcVars, alerted>>

AnyAddEntry == \E e \in CallEntries : CallAddEntry(WithoutId(e))

AnyUpdateEntry == \E e \in CallEntries, id \in CallIds : CallUpdateEntry([e EXCEPT !.id = id])

AnyDeleteEntry == \E id \in CallIds : CallDeleteEntry(id)

AnyAddShift == \E sh \in CallShifts : CallAddShift(WithoutId(sh))

AnyUpdateShift == \E sh \in CallShifts, id \in CallIds : CallUpdateShift([sh EXCEPT !.id = id])

AnyDeleteShift == \E id \in CallIds : CallDeleteShift(id)

AnyUpdateGoals == \E g \in CallGoals : CallUpdateGoals(g)

\* the events of the service worker
Install ==
    /\ \E outcome \in Outcomes : install(outcome)
    /\ UNCHANGED <<entries, shifts, goals, filter, now, tz, durVars, fmtVars, cardVars, alerted>>

Activate ==
    /\ activate
    /\ UNCHANGED <<entries, shifts, goals, filter, now, tz, durVars, fmtVars, cardVars, alerted>>

Fetch ==
    /\ \E url \in RequestUrls, method \in Methods, outcome \in Outcomes :
          fetch(url, method, outcome)
    /\ UNCHANGED <<entries, shifts, goals, filter, now, tz, durVars, fmtVars, cardVars, alerted>>

PutWritten ==
    /\ \E entry \in puts : putSettles(entry, TRUE)
    /\ UNCHANGED <<entries, shifts, goals, filter, now, tz, durVars, fmtVars, cardVars, alerted>>

PutRejected ==
    /\ \E entry \in puts : putSettles(entry, FALSE)
    /\ UNCHANGED <<entries, shifts, goals, filter, now, tz, durVars, fmtVars, cardVars, alerted>>

\* getLocalDateISOString(): the local calendar date of the host clock, as
\* the date field of a form holds it
getLocalDateISOString ==
    <<LocalFields(now).year, LocalFields(now).month + 1, LocalFields(now).date>>

\* the entry modal is opened and submitted with the date it proposes, today
CreateEntryToday ==
    /\ Len(entries) < MaxRecords
    /\ \E form \in TodayForms : SubmitEntry([form EXCEPT !.date = getLocalDateISOString], <<>>)

\* an entry of the insights specification is created
CreateInsightEntry ==
    /\ Len(entries) < MaxInsightEntries
    /\ \E form \in InsightForms : SubmitEntry(form, <<>>)

\* a file is chosen in the settings; the confirmation is answered
Import ==
    /\ \E text \in BackupFiles, confirmed \in BOOLEAN : handleFileChange(text, confirmed)
    /\ UNCHANGED <<filter, now, tz, calcVars>>

\* the duration calculator is applied to the shift given
DurCompute ==
    /\ durShift # <<>>
    /\ durResult = <<>>
    /\ durResult' = <<[net   |-> calculateShiftDuration(durShift[1], TRUE),
                       gross |-> calculateShiftDuration(durShift[1], FALSE),
                       pause |-> calculatePauseDuration(durShift[1])]>>
    /\ UNCHANGED <<entries, shifts, filter, now, tz, goals, durShift, fmtVars, cardVars, swVars, alerted>>

\* a Date is stored with toNaiveUTCISOString and shown with the two formatters
FmtStoreAndShow ==
    /\ fmtDate # <<>>
    /\ fmtText = <<>>
    /\ fmtText' = <<[iso  |-> toNaiveUTCISOString(fmtDate[1]),
                     date |-> formatDateFromNaiveUTC(toNaiveUTCISOString(fmtDate[1])),
                     time |-> formatTimeFromNaiveUTC(toNaiveUTCISOString(fmtDate[1]))]>>
    /\ UNCHANGED <<entries, shifts, filter, now, tz, goals, durVars, fmtDate, cardVars, swVars, alerted>>

---------------------------------------------------------------------------
(* The application: store, forms and filter on a running host *)

Init ==
    /\ entries = <<>>
    /\ shifts = <<>>
    /\ filter = DefaultFilter
    /\ now \in StoreClock
    /\ tz \in StoreZones
    /\ durShift = <<>>
    /\ durResult = <<>>
    /\ fmtDate = <<>>
    /\ fmtText = <<>>
    /\ goals = DefaultGoals
    /\ cardIn = <<>>
    /\ cardOut = <<>>
    /\ alerted = <<>>
    /\ WorkerParsed

Next ==
    \/ Tick(StoreClock)
    \/ SelectPeriod(StorePeriods)
    \/ CustomDateChange
    \/ CreateEntry
    \/ EditEntry
    \/ DeleteEntry
    \/ CreateShift
    \/ EditShift
    \/ DeleteShift

Spec == Init /\ [][Next]_vars

(* The period resolver under every host clock and zone, the store empty *)

PeriodInit ==
    /\ entries = <<>>
    /\ shifts = <<>>
    /\ filter = DefaultFilter
    /\ now \in Clock
    /\ tz \in Zones
    /\ durShift = <<>>
    /\ durResult = <<>>
    /\ fmtDate = <<>>
    /\ fmtText = <<>>
    /\ goals = DefaultGoals
    /\ cardIn = <<>>
    /\ cardOut = <<>>
    /\ alerted = <<>>
    /\ WorkerParsed

PeriodNext ==
    \/ Tick(Clock)
    \/ SelectPeriod(Periods)

PeriodSpec == PeriodInit /\ [][PeriodNext]_vars

(* The duration calculator applied to any shift, well-formed or not *)

DurInit ==
    /\ entries = <<>>
    /\ shifts = <<>>
    /\ filter = DefaultFilter
    /\ now = DateUTC(2025, 2, 9, 13, 0, 0, 0)
    /\ tz = SaoPaulo
    /\ durShift \in {<<s>> : s \in DurShifts}
    /\ durResult = <<>>
    /\ fmtDate = <<>>
    /\ fmtText = <<>>
    /\ goals = DefaultGoals
    /\ cardIn = <<>>
    /\ cardOut = <<>>
    /\ alerted = <<>>
    /\ WorkerParsed

DurNext == DurCompute

DurSpec == DurInit /\ [][DurNext]_vars

(* The time normalization applied to any Date on any host *)

FmtInit ==
    /\ entries = <<>>
    /\ shifts = <<>>
    /\ filter = DefaultFilter
    /\ now = DateUTC(2025, 2, 9, 13, 0, 0, 0)
    /\ tz \in Zones
    /\ durShift = <<>>
    /\ durResult = <<>>
    /\ fmtDate \in {<<d>> : d \in FmtDates}
    /\ fmtText = <<>>
    /\ goals = DefaultGoals
    /\ cardIn = <<>>
    /\ cardOut = <<>>
    /\ alerted = <<>>
    /\ WorkerParsed

FmtNext == FmtStoreAndShow

FmtSpec == FmtInit /\ [][FmtNext]_vars

(* The goal selection of the dashboard under every filter and goals *)

GoalInit ==
    /\ entries = <<>>
    /\ shifts = <<>>
    /\ goals = DefaultGoals
    /\ filter = DefaultFilter
    /\ now = DateUTC(2025, 2, 9, 13, 0, 0, 0)
    /\ tz \in StoreZones
    /\ durShift = <<>>
    /\ durResult = <<>>
    /\ fmtDate = <<>>
    /\ fmtText = <<>>
    /\ cardIn = <<>>
    /\ cardOut = <<>>
    /\ alerted = <<>>
    /\ WorkerParsed

GoalNext ==
    \/ SelectPeriod(Periods)
    \/ GoalDateChange
    \/ SaveGoals

GoalSpec == GoalInit /\ [][GoalNext]_vars

(* The progress cards given any current and target value *)

CardInit ==
    /\ entries = <<>>
    /\ shifts = <<>>
    /\ goals = DefaultGoals
    /\ filter = DefaultFilter
    /\ now = DateUTC(2025, 2, 9, 13, 0, 0, 0)
    /\ tz = SaoPaulo
    /\ durShift = <<>>
    /\ durResult = <<>>
    /\ fmtDate = <<>>
    /\ fmtText = <<>>
    /\ cardIn \in {<<[current |-> c, target |-> t]>> : c \in CardValues, t \in CardTargets}
    /\ cardOut = <<>>
    /\ alerted = <<>>
    /\ WorkerParsed

CardNext == RenderCards

CardSpec == CardInit /\ [][CardNext]_vars

(* The two forms in create and edit mode *)

FormInit ==
    /\ entries = <<>>
    /\ shifts = <<>>
    /\ goals = DefaultGoals
    /\ filter = DefaultFilter
    /\ now = DateUTC(2025, 2, 9, 2, 30, 0, 0)
    /\ tz = SaoPaulo
    /\ durShift = <<>>
    /\ durResult = <<>>
    /\ fmtDate = <<>>
    /\ fmtText = <<>>
    /\ cardIn = <<>>
    /\ cardOut = <<>>
    /\ alerted = <<>>
    /\ WorkerParsed

FormNext ==
    \/ Tick(StoreClock)
    \/ CreateEntry
    \/ EditEntry
    \/ EditLoadedEntry
    \/ DeleteEntry
    \/ CreateShift
    \/ EditShift

FormSpec == FormInit /\ [][FormNext]_vars

(* The shift form under every host zone, with times around midnight and *)
(* around the clock changes                                              *)

RolloverInit ==
    /\ entries = <<>>
    /\ shifts = <<>>
    /\ goals = DefaultGoals
    /\ filter = DefaultFilter
    /\ now = DateUTC(2025, 2, 9, 13, 0, 0, 0)
    /\ tz \in Zones
    /\ durShift = <<>>
    /\ durResult = <<>>
    /\ fmtDate = <<>>
    /\ fmtText = <<>>
    /\ cardIn = <<>>
    /\ cardOut = <<>>
    /\ alerted = <<>>
    /\ WorkerParsed

RolloverNext ==
    \/ CreateRolloverShift
    \/ EditLoadedShift

RolloverSpec == RolloverInit /\ [][RolloverNext]_vars

(* The insights over the entries of every period, under every host zone *)

InsightInit ==
    /\ entries = <<>>
    /\ shifts = <<>>
    /\ goals = DefaultGoals
    /\ filter = [DefaultFilter EXCEPT !.period = "all"]
    /\ now = DateUTC(2025, 2, 20, 12, 0, 0, 0)
    /\ tz \in Zones
    /\ durShift = <<>>
    /\ durResult = <<>>
    /\ fmtDate = <<>>
    /\ fmtText = <<>>
    /\ cardIn = <<>>
    /\ cardOut = <<>>
    /\ alerted = <<>>
    /\ WorkerParsed

InsightNext ==
    \/ CreateInsightEntry
    \/ DeleteEntry

InsightSpec == InsightInit /\ [][InsightNext]_vars

(* The store operations called directly, with ids present and absent *)

CallInit ==
    /\ entries = <<>>
    /\ shifts = <<>>
    /\ goals = DefaultGoals
    /\ filter = DefaultFilter
    /\ now = DateUTC(2025, 2, 9, 2, 30, 0, 0)
    /\ tz = SaoPaulo
    /\ durShift = <<>>
    /\ durResult = <<>>
    /\ fmtDate = <<>>
    /\ fmtText = <<>>
    /\ cardIn = <<>>
    /\ cardOut = <<>>
    /\ alerted = <<>>
    /\ WorkerParsed

CallNext ==
    \/ Tick(StoreClock)
    \/ SelectPeriod(CallPeriods)
    \/ AnyAddEntry
    \/ AnyUpdateEntry
    \/ AnyDeleteEntry
    \/ AnyAddShift
    \/ AnyUpdateShift
    \/ AnyDeleteShift
    \/ AnyUpdateGoals

CallSpec == CallInit /\ [][CallNext]_vars

(* The service worker from its first run, the network up or down *)

WorkerInit ==
    /\ entries = <<>>
    /\ shifts = <<>>
    /\ goals = DefaultGoals
    /\ filter = DefaultFilter
    /\ now = DateUTC(2025, 2, 9, 13, 0, 0, 0)
    /\ tz = SaoPaulo
    /\ durShift = <<>>
    /\ durResult = <<>>
    /\ fmtDate = <<>>
    /\ fmtText = <<>>
    /\ cardIn = <<>>
    /\ cardOut = <<>>
    /\ alerted = <<>>
    /\ phase = "parsed"
    /\ caches \in EarlierStorage
    /\ puts = {}
    /\ answered = {}
    /\ lastAnswer = <<>>

WorkerNext ==
    \/ Install
    \/ Activate
    \/ Fetch
    \/ PutWritten
    \/ PutRejected

WorkerSpec == WorkerInit /\ [][WorkerNext]_vars

(* Entries saved with today's date, at every time of day in every zone *)

TodayInit ==
    /\ entries = <<>>
    /\ shifts = <<>>
    /\ goals = DefaultGoals
    /\ filter = [DefaultFilter EXCEPT !.period = "all"]
    /\ now \in TodayClock
    /\ tz \in Zones
    /\ durShift = <<>>
    /\ durResult = <<>>
    /\ fmtDate = <<>>
    /\ fmtText = <<>>
    /\ cardIn = <<>>
    /\ cardOut = <<>>
    /\ alerted = <<>>
    /\ WorkerParsed

TodayNext ==
    \/ SelectPeriod(RollingPeriods)
    \/ CreateEntryToday

TodaySpec == TodayInit /\ [][TodayNext]_vars

(* The import of a backup into a store that the forms have filled *)

ImportInit ==
    /\ entries = <<>>
    /\ shifts = <<>>
    /\ goals = DefaultGoals
    /\ filter = DefaultFilter
    /\ now = DateUTC(2025, 2, 9, 13, 0, 0, 0)
    /\ tz = SaoPaulo
    /\ durShift = <<>>
    /\ durResult = <<>>
    /\ fmtDate = <<>>
    /\ fmtText = <<>>
    /\ cardIn = <<>>
    /\ cardOut = <<>>
    /\ alerted = <<>>
    /\ WorkerParsed

ImportNext ==
    \/ CreateEntry
    \/ CreateShift
    \/ SaveGoals
    \/ Import

ImportSpec == ImportInit /\ [][ImportNext]_vars

---------------------------------------------------------------------------
(* Properties *)

\* the sum of f[x] over the finite set S
RECURSIVE SetSum(_, _)
SetSum(f, S) ==
    IF S = {} THEN 0
    ELSE LET x == CHOOSE y \in S : TRUE
         IN  f[x] + SetSum(f, S \ {x})

\* the sum of the amounts of the entries of fe of the given type
AmountsOfType(fe, type) ==
    LET idx == {i \in 1..Len(fe) : fe[i].type = type}
    IN  SetSum([i \in idx |-> fe[i].amount], idx)

IsMember(x, seq) == \E i \in 1..Len(seq) : seq[i] = x

\* C1: over the filtered entries and shifts, revenue is the sum of the GAIN
\* amounts, expenses the sum of the EXPENSE amounts, profit their difference and
\* totalDurationMs the sum of the net shift durations; a gain of 100 and an
\* expense of 40 give revenue 100, expenses 40, profit 60.
C1_CoreTotals ==
    LET fe  == filteredEntries
        fs  == filteredShifts
        all == 1..Len(fs)
        st  == stats
    IN  /\ st.revenue = AmountsOfType(fe, "GAIN")
        /\ st.expenses = AmountsOfType(fe, "EXPENSE")
        /\ st.profit = AmountsOfType(fe, "GAIN") - AmountsOfType(fe, "EXPENSE")
        /\ st.totalDurationMs =
              SetSum([i \in all |-> calculateShiftDuration(fs[i], TRUE)], all)
        /\ (/\ Len(fe) = 2
            /\ \E i, j \in 1..2 : /\ fe[i].type = "GAIN" /\ fe[i].amount = 100
                                  /\ fe[j].type = "EXPENSE" /\ fe[j].amount = 40)
              => /\ st.revenue = 100
                 /\ st.expenses = 40
                 /\ st.profit = 60

\* a gain of 100 and an expense of 40 are both in the filtered range
C1_Witness ==
    /\ Len(filteredEntries) = 2
    /\ \E i, j \in 1..2 :
          /\ filteredEntries[i].type = "GAIN" /\ filteredEntries[i].amount = 100
          /\ filteredEntries[j].type = "EXPENSE" /\ filteredEntries[j].amount = 40
    /\ stats.profit = 60

\* C2: a record saved through the forms with local calendar date D is in the
\* filtered set of period 'today' exactly when the host's current local
\* calendar date is D, whatever the host's offset and the time of day.
C2_TodayIsWallClockDate ==
    LET f  == [filter EXCEPT !.period = "today"]
        n  == LocalFields(now)
        OnToday(iso) == iso.Y = n.year /\ iso.M = n.month + 1 /\ iso.D = n.date
    IN  /\ \A i \in 1..Len(entries) :
              IsMember(entries[i], filteredEntriesOf(f)) <=> OnToday(entries[i].date)
        /\ \A i \in 1..Len(shifts) :
              IsMember(shifts[i], filteredShiftsOf(f)) <=> OnToday(shifts[i].start[1])

\* the value metric / total, total > 0, as a fraction
Quotient(metric, total) == Frac(metric * total.d, total.n)

\* C3: each of the nine rates is metric / denominator when the denominator is
\* positive and 0 otherwise, with hours = totalDurationMs / 3600000, km the sum
\* of distanceDriven over the FUEL expenses and trips the sum of tripCount over
\* the non-reward gains that have one; no rate has a zero divisor.
C3_Rates ==
    LET fe    == filteredEntries
        st    == stats
        fuel  == {i \in 1..Len(fe) : /\ fe[i].type = "EXPENSE"
                                     /\ fe[i].category = <<"FUEL">>
                                     /\ fe[i].fuelDetails # <<>>}
        rides == {i \in 1..Len(fe) : /\ fe[i].type = "GAIN"
                                     /\ fe[i].isReward # <<TRUE>>
                                     /\ fe[i].tripCount # <<>>}
        hours == Frac(st.totalDurationMs, MS_PER_HOUR)
        km    == Frac(SetSum([i \in fuel |-> fe[i].fuelDetails[1].distanceDriven], fuel), 1)
        trips == Frac(SetSum([i \in rides |-> fe[i].tripCount[1]], rides), 1)
        Is(rate, metric, total) ==
            /\ rate.d # 0
            /\ IF total.n > 0 THEN rate = Quotient(metric, total) ELSE rate = Frac(0, 1)
    IN  /\ Is(st.revenuePerHour, st.revenue, hours)
        /\ Is(st.revenuePerKm, st.revenue, km)
        /\ Is(st.revenuePerTrip, st.revenue, trips)
        /\ Is(st.expensesPerHour, st.expenses, hours)
        /\ Is(st.expensesPerKm, st.expenses, km)
        /\ Is(st.expensesPerTrip, st.expenses, trips)
        /\ Is(st.profitPerHour, st.profit, hours)
        /\ Is(st.profitPerKm, st.profit, km)
        /\ Is(st.profitPerTrip, st.profit, trips)

\* a gain with trips and a shift are in range and no fuel was bought: the rates
\* per hour and per trip are quotients, the rates per km are 0
C3_Witness ==
    /\ stats.totalDurationMs > 0
    /\ stats.revenuePerTrip = Frac(100, 2)
    /\ stats.revenuePerHour.n > 0
    /\ stats.totalKm = 0
    /\ stats.revenuePerKm = Frac(0, 1)

\* the pauses of a shift that have both bounds and end after they start
CountedPauses(shift) ==
    {i \in 1..Len(shift.pauses) :
        /\ shift.pauses[i].start # <<>>
        /\ shift.pauses[i].end # <<>>
        /\ Before(ParseISO(shift.pauses[i].start[1]), ParseISO(shift.pauses[i].end[1]))}

\* C4: for every shift, pauses malformed or oversized included,
\* calculateShiftDuration(shift, true) <= calculateShiftDuration(shift, false)
\* and both are >= 0.
C4_NetWithinGross ==
    durResult # <<>> =>
        /\ durResult[1].net <= durResult[1].gross
        /\ durResult[1].net >= 0
        /\ durResult[1].gross >= 0

\* the pauses of a shift with end > start add up to more than the shift lasts
C4_Witness ==
    /\ durResult # <<>>
    /\ durResult[1].gross > 0
    /\ durResult[1].pause > durResult[1].gross
    /\ durResult[1].net = 0

\* C5: calculateShiftDuration is 0 when start or end is missing or end <= start;
\* otherwise it is end - start, less the pause duration when withPauses is true,
\* and never below 0; with end > start and no pauses the net duration is
\* end - start.
C5_ShiftDuration ==
    durResult # <<>> =>
        LET shift == durShift[1]
            r     == durResult[1]
            start == ParseISO(shift.start[1])
            end   == ParseISO(shift.end[1])
            span  == MsBetween(start, end)
        IN  IF shift.start = <<>> \/ shift.end = <<>> \/ NotAfter(end, start)
            THEN r.net = 0 /\ r.gross = 0
            ELSE /\ r.gross = span
                 /\ r.net = (IF span - r.pause > 0 THEN span - r.pause ELSE 0)
                 /\ shift.pauses = <<>> => r.net = span

\* a shift with end > start and a pause shorter than the shift
C5_Witness ==
    /\ durResult # <<>>
    /\ durResult[1].pause > 0
    /\ durResult[1].net > 0
    /\ durResult[1].net < durResult[1].gross

\* C6: calculatePauseDuration is the sum of end - start over exactly the pauses
\* that have both bounds and end > start; appending a pause never lowers it and
\* it is never negative.
C6_PauseDuration ==
    durResult # <<>> =>
        LET shift == durShift[1]
            idx   == CountedPauses(shift)
            Length(i) == MsBetween(ParseISO(shift.pauses[i].start[1]),
                                   ParseISO(shift.pauses[i].end[1]))
        IN  /\ durResult[1].pause = SetSum([i \in idx |-> Length(i)], idx)
            /\ durResult[1].pause >= 0
            /\ \A p \in DurPauses :
                  calculatePauseDuration([shift EXCEPT !.pauses = Append(@, p)])
                      >= durResult[1].pause

\* a shift with a counted pause and a pause that ends before it starts
C6_Witness ==
    /\ durResult # <<>>
    /\ durResult[1].pause > 0
    /\ \E i \in 1..Len(durShift[1].pauses) :
          LET p == durShift[1].pauses[i]
          IN  /\ p.start # <<>> /\ p.end # <<>>
              /\ Before(ParseISO(p.end[1]), ParseISO(p.start[1]))

AtMidnight(f) == f.hours = 0 /\ f.minutes = 0 /\ f.seconds = 0 /\ f.ms = 0

AtEndOfDay(f) == f.hours = 23 /\ f.minutes = 59 /\ f.seconds = 59 /\ f.ms = 999

\* the day number of the calendar date of local fields
DayNumber(f) == MakeDay(f.year, f.month, f.date)

\* C7: at any time, period 'today' starts at local midnight of the current day
\* and its end is 86399999 ms after its start; an unrecognized period key gives
\* the same range.
C7_Today ==
    /\ filter.period = "today" =>
          LET r == getPeriodRange(filter)
              s == LocalFields(r.start)
          IN  /\ AtMidnight(s)
              /\ DayNumber(s) = DayNumber(LocalFields(now))
              /\ MsBetween(r.start, r.end) = 86399999
    /\ getPeriodRange([filter EXCEPT !.period = "tomorrow"])
          = getPeriodRange([filter EXCEPT !.period = "today"])

\* 'today' on the day clocks go forward, read late in the local day
C7_Witness ==
    /\ filter.period = "today"
    /\ tz.dst
    /\ OffsetMs(getPeriodRange(filter).start) # OffsetMs(now)

\* the ISO string of a date-only string at the given time of day
IsoAt(date, h, m, sec, ms) ==
    [Y |-> date[1], M |-> date[2], D |-> date[3], h |-> h, m |-> m, s |-> sec, ms |-> ms]

\* C8: period 'custom' with both bounds gives customRange.start at 00:00:00.000
\* and customRange.end at 23:59:59.999, both read as UTC fields; with a bound
\* missing it gives start = end = epoch and the filtered entries and shifts are
\* empty whatever the store holds.
C8_Custom ==
    LET dates == CustomDates \cup FormDates
                    \cup {filter.customRange.start, filter.customRange.end}
    IN  \A a \in dates, b \in dates :
           LET f == [filter EXCEPT !.period = "custom",
                                   !.customRange = [start |-> a, end |-> b]]
               r == getPeriodRange(f)
           IN  IF a # <<>> /\ b # <<>>
               THEN /\ toISOString(r.start) = IsoAt(a, 0, 0, 0, 0)
                    /\ toISOString(r.end) = IsoAt(b, 23, 59, 59, 999)
               ELSE /\ r.start = Epoch
                    /\ r.end = Epoch
                    /\ filteredEntriesOf(f) = <<>>
                    /\ filteredShiftsOf(f) = <<>>

\* 'custom' is selected with only the end date given, and the store holds an
\* entry and a shift
C8_Witness ==
    /\ filter.period = "custom"
    /\ filter.customRange.start = <<>>
    /\ filter.customRange.end # <<>>
    /\ entries # <<>>
    /\ shifts # <<>>
    /\ filteredEntries = <<>>
    /\ filteredShifts = <<>>

\* what C9 says of the range of 'this_week', the length of the range apart
ThisWeekIsMondayToSunday(r) ==
    LET s == LocalFields(r.start)
        e == LocalFields(r.end)
        n == LocalFields(now)
    IN  /\ s.day = 1 /\ AtMidnight(s)
        /\ e.day = 0 /\ AtEndOfDay(e)
        /\ DayNumber(e) - DayNumber(s) = 6
        /\ DayNumber(n) - DayNumber(s) \in 0..6
        /\ n.day = 0 => DayNumber(n) - DayNumber(s) = 6
        /\ NotAfter(r.start, now) /\ NotAfter(now, r.end)

\* C9 (as claimed): 'this_week' runs from local midnight of the Monday of the
\* current week (on a Sunday, the Monday six days earlier) to the following
\* Sunday 23:59:59.999 local, contains the current day and spans exactly 7 days
\* minus 1 ms.
C9_ThisWeekSpansSevenDays ==
    filter.period = "this_week" =>
        LET r == getPeriodRange(filter)
        IN  /\ ThisWeekIsMondayToSunday(r)
            /\ MsBetween(r.start, r.end) = 7 * MS_PER_DAY - 1

\* C9 (amended): 'this_week' runs from local midnight of the Monday of the
\* current week (on a Sunday, the Monday six days earlier) to the following
\* Sunday 23:59:59.999 local and contains the current day; it spans exactly 7
\* days minus 1 ms when the host's UTC offset is the same at both ends, and
\* differs from that by the change of offset otherwise.
C9_ThisWeek ==
    filter.period = "this_week" =>
        LET r == getPeriodRange(filter)
        IN  /\ ThisWeekIsMondayToSunday(r)
            /\ MsBetween(r.start, r.end)
                  = 7 * MS_PER_DAY - 1 - (OffsetMs(r.end) - OffsetMs(r.start))

\* 'this_week' on a Sunday in January, the Monday lying in the year before
C9_Witness ==
    /\ filter.period = "this_week"
    /\ LocalFields(now).day = 0
    /\ LocalFields(now).year = 2025
    /\ LocalFields(getPeriodRange(filter).start).year = 2024

\* C10: 'yesterday' starts at local midnight of the previous calendar day and
\* ends 1 ms before local midnight of today, so yesterday.end + 1 ms is
\* today.start: the two ranges neither overlap nor leave a gap.
C10_YesterdayMeetsToday ==
    filter.period = "yesterday" =>
        LET y == getPeriodRange(filter)
            t == getPeriodRange([filter EXCEPT !.period = "today"])
            s == LocalFields(y.start)
        IN  /\ AtMidnight(s)
            /\ DayNumber(s) = DayNumber(LocalFields(now)) - 1
            /\ AddMs(y.end, 1) = t.start

\* the number of days of month m (0-based) of year y
DaysInMonth(y, m) ==
    IF m = 1
    THEN IF (y % 4 = 0 /\ y % 100 # 0) \/ y % 400 = 0 THEN 29 ELSE 28
    ELSE IF m \in {3, 5, 8, 10} THEN 30 ELSE 31

\* C11: period 'this_month' starts on the 1st of the current month at local
\* midnight and ends on the last day of the current month at 23:59:59.999
\* local, whatever the length of the month and in December too; the range
\* contains the current instant.
C11_ThisMonth ==
    filter.period = "this_month" =>
        LET r == getPeriodRange(filter)
            s == LocalFields(r.start)
            e == LocalFields(r.end)
            n == LocalFields(now)
        IN  /\ s.year = n.year /\ s.month = n.month /\ s.date = 1
            /\ AtMidnight(s)
            /\ e.year = n.year /\ e.month = n.month
            /\ e.date = DaysInMonth(n.year, n.month)
            /\ AtEndOfDay(e)
            /\ LocalFields(AddMs(r.end, 1)).date = 1
            /\ NotAfter(r.start, now) /\ NotAfter(now, r.end)

\* 'this_month' in the February of a leap year
C11_Witness ==
    /\ filter.period = "this_month"
    /\ LocalFields(now).month = 1
    /\ LocalFields(getPeriodRange(filter).end).date = 29

\* the range of a period at the current instant
RangeOf(period) == getPeriodRange([filter EXCEPT !.period = period])

\* C12: 'last_7_days' starts at local midnight 6 days before today,
\* 'last_30_days' at local midnight 29 days before today and 'all' at the
\* epoch; the three end at the current instant, their starts are ordered
\* today >= last_7_days >= last_30_days >= all, and each contains now.
C12_RollingRanges ==
    LET w == RangeOf("last_7_days")
        m == RangeOf("last_30_days")
        a == RangeOf("all")
        t == RangeOf("today")
        n == DayNumber(LocalFields(now))
    IN  /\ AtMidnight(LocalFields(w.start))
        /\ DayNumber(LocalFields(w.start)) = n - 6
        /\ AtMidnight(LocalFields(m.start))
        /\ DayNumber(LocalFields(m.start)) = n - 29
        /\ a.start = Epoch
        /\ w.end = now /\ m.end = now /\ a.end = now
        /\ NotAfter(w.start, t.start)
        /\ NotAfter(m.start, w.start)
        /\ NotAfter(a.start, m.start)
        /\ \A r \in {w, m, a} : NotAfter(r.start, now) /\ NotAfter(now, r.end)

\* 'last_7_days' selected on a day whose sixth day before lies in the year
\* before, on a host with daylight saving time
C12_Witness ==
    /\ filter.period = "last_7_days"
    /\ LocalFields(getPeriodRange(filter).start).year < LocalFields(now).year
    /\ tz.dst

\* the text DD/MM/YYYY of local fields, the year with at least four digits
DateText(f) ==
    Pad(f.date, 2) \o <<"/">> \o Pad(f.month + 1, 2) \o <<"/">>
        \o (IF f.year <= 9999 THEN Pad(f.year, 4) ELSE Pad(f.year, 5))

\* the text HH:mm of local fields
TimeText(f) == Pad(f.hours, 2) \o <<":">> \o Pad(f.minutes, 2)

\* C13: for any valid local date-time d and any host time zone,
\* formatDateFromNaiveUTC(toNaiveUTCISOString(d)) is d's local day, month and
\* year as DD/MM/YYYY and formatTimeFromNaiveUTC(toNaiveUTCISOString(d)) is
\* d's local hour and minute as HH:mm.
C13_RoundTrip ==
    fmtText # <<>> =>
        LET f == LocalFields(fmtDate[1])
        IN  /\ fmtText[1].date = DateText(f)
            /\ fmtText[1].time = TimeText(f)

\* the target of the dashboard's profit card: goal?.profit
DashboardProfitTarget == GoalProfit(DashboardGoal(filter, goals))

\* the number of days between two date-only strings
DaysApart(a, b) ==
    LET x == DaysFromCivil(a[1], a[2], a[3])
        y == DaysFromCivil(b[1], b[2], b[3])
    IN  IF x < y THEN y - x ELSE x - y

WithinBar(width) == 0 <= width.n /\ width.n <= 100 * width.d

\* C15: a progress bar is shown only for a target that is a positive number;
\* progress is currentValue / targetValue * 100; for every current value,
\* negative ones and ones above the target included, the width of the bar
\* lies in [0, 100] and the text shows floor(progress) unclamped, on the
\* dashboard's summary card and on the progress card of the goals view alike.
C15_ProgressBar ==
    cardOut # <<>> =>
        LET c == cardIn[1].current
            t == cardIn[1].target
            positive == t # <<>> /\ t[1] > 0
            s == cardOut[1].summary
            g == cardOut[1].goalsView
        IN  /\ s.hasGoal <=> positive
            /\ s.hasGoal => /\ WithinBar(s.width)
                            /\ s.text = (c * 100) \div t[1]
            /\ g # <<>> <=> positive
            /\ g # <<>> => /\ WithinBar(g[1].width)
                           /\ g[1].text = (c * 100) \div t[1]

\* the claim's malformed files: no JSON, a key missing, entries or shifts no
\* array, goals no object mapping
Malformed(text) ==
    \/ text = <<>>
    \/ text[1].type # "object"
    \/ \E key \in {"entries", "shifts", "goals"} : key \notin DOMAIN text[1].members
    \/ text[1].members.entries.type # "array"
    \/ text[1].members.shifts.type # "array"
    \/ text[1].members.goals.type # "object"

\* C16: importing a file that is not parseable JSON, lacks one of the keys
\* entries/shifts/goals, has entries or shifts that is not an array, or has
\* goals that is not an object mapping (null or an array, for instance) is
\* rejected: entries, shifts and goals keep their previous values.
C16_MalformedImportRejected ==
    [][\A text \in BackupFiles, confirmed \in BOOLEAN :
          (Malformed(text) /\ handleFileChange(text, confirmed))
              => UNCHANGED <<entries, shifts, goals>>]_vars

\* the shape the claim requires of a stored entry
WellShaped(e) ==
    /\ e.type = "GAIN" => e.category = <<>> /\ e.fuelDetails = <<>>
    /\ e.type = "EXPENSE" => e.platform = <<>> /\ e.tripCount = <<>> /\ e.isReward = <<>>
    /\ (e.type = "EXPENSE" /\ e.category = <<"FUEL">>) => e.fuelDetails # <<>>
    /\ (e.type = "EXPENSE" /\ e.category # <<"FUEL">>) => e.fuelDetails = <<>>
    /\ e.isReward = <<TRUE>> => e.tripCount = <<>>

\* C17: after any sequence of entry-form submissions, creations and edits,
\* every stored entry is well shaped: a GAIN carries no category and no
\* fuelDetails, an EXPENSE no platform, tripCount or isReward, a FUEL expense
\* always carries fuelDetails and another expense never, and a reward carries
\* no tripCount.
C17_EntryShape == \A i \in 1..Len(entries) : WellShaped(entries[i])

\* the store holds an expense that an edit has moved from FUEL (its computed
\* amount of 30 is left) to OTHER, and a gain of 100 for 2 trips that an edit
\* has turned into a reward
C17_Witness ==
    /\ \E i \in 1..Len(entries) :
          /\ entries[i].category = <<"OTHER">>
          /\ entries[i].amount = 30
          /\ entries[i].fuelDetails = <<>>
    /\ \E i \in 1..Len(entries) :
          /\ entries[i].isReward = <<TRUE>>
          /\ entries[i].amount = 100
          /\ entries[i].tripCount = <<>>

\* the claim's rejected entry forms: no positive amount, or a fuel expense
\* without three positive details
EntryFormInvalid(form) ==
    \/ ~IsFuel(form) /\ form.amount <= 0
    \/ IsFuel(form) /\ (\/ form.pricePerLiter <= 0
                        \/ form.avgConsumption <= 0
                        \/ form.distanceDriven <= 0)

\* the claim's rejected shift forms
ShiftFormInvalid(form) == form.date = <<>> \/ form.startTime = <<>> \/ form.endTime = <<>>

\* the entries and shifts a form may be editing, <<>> for a new record
EditableEntries == {<<>>} \cup {<<entries[i]>> : i \in 1..Len(entries)}

EditableShifts == {<<>>} \cup {<<shifts[i]>> : i \in 1..Len(shifts)}

\* the forms that can be submitted for entryToEdit
FormsFor(entryToEdit) ==
    IF entryToEdit = <<>> THEN EntryForms
    ELSE EntryForms \cup EditedForms(entryToEdit[1])

\* C18: a rejected submission never changes the store.  The entry form with
\* an amount that is no positive number or a fuel expense with one of price,
\* consumption, distance missing or <= 0, and the shift form with date, start
\* or end missing, leave entries and shifts as they were, creating or editing.
C18_RejectedLeavesStore ==
    [][/\ \A entryToEdit \in EditableEntries : \A form \in FormsFor(entryToEdit) :
             (EntryFormInvalid(form) /\ SubmitEntry(form, entryToEdit))
                 => UNCHANGED <<entries, shifts>>
       /\ \A shiftToEdit \in EditableShifts : \A form \in ShiftForms :
             (ShiftFormInvalid(form) /\ SubmitShift(form, shiftToEdit))
                 => UNCHANGED <<entries, shifts>>]_vars

\* an incomplete shift form has just been rejected while the store holds an
\* entry and a shift
C18_Witness ==
    /\ alerted = <<ShiftIncomplete>>
    /\ Len(entries) > 0
    /\ Len(shifts) > 0

\* a fuel expense form with one of price, consumption, distance missing or <= 0
FuelFormIncomplete(form) ==
    /\ form.type = "EXPENSE"
    /\ form.category = "FUEL"
    /\ \/ form.pricePerLiter <= 0
       \/ form.avgConsumption <= 0
       \/ form.distanceDriven <= 0

\* C19: submitting a fuel expense with one of pricePerLiter, avgConsumption,
\* distanceDriven missing or <= 0 is rejected with a message shown to the
\* user, when creating an entry and when editing one, and nothing is stored.
C19_IncompleteFuelAlerted ==
    [][\A entryToEdit \in EditableEntries : \A form \in FormsFor(entryToEdit) :
          (FuelFormIncomplete(form) /\ SubmitEntry(form, entryToEdit))
              => (alerted' # <<>> /\ UNCHANGED entries)]_vars

\* the stored bounds of a shift or pause, end not before start
EndNotBeforeStart(span) == NotAfter(ParseISO(span.start[1]), ParseISO(span.end[1]))

\* C20: every shift saved by the shift form has end >= start after the
\* midnight rollover, and every stored pause has end >= start after its own
\* rollover, whatever start, end and pause times were entered.
C20_EndNotBeforeStart ==
    \A i \in 1..Len(shifts) :
       /\ EndNotBeforeStart(shifts[i])
       /\ \A k \in 1..Len(shifts[i].pauses) : EndNotBeforeStart(shifts[i].pauses[k])

\* a shift from 23:30 to 00:30 is stored with its end on the next day, and
\* its pause from 23:45 to 00:30 likewise
C20_Witness ==
    \E i \in 1..Len(shifts) :
       /\ shifts[i].start[1].h = 23 /\ shifts[i].start[1].m = 30
       /\ shifts[i].end[1].h = 0 /\ shifts[i].end[1].m = 30
       /\ shifts[i].end[1].D = shifts[i].start[1].D + 1
       /\ Len(shifts[i].pauses) = 1
       /\ shifts[i].pauses[1].start[1].D = shifts[i].start[1].D
       /\ shifts[i].pauses[1].end[1].D = shifts[i].start[1].D + 1

\* the stored pause lies within the stored bounds of its shift
PauseWithinShift(pause, shift) ==
    /\ NotAfter(ParseISO(shift.start[1]), ParseISO(pause.start[1]))
    /\ NotAfter(ParseISO(pause.end[1]), ParseISO(shift.end[1]))

\* C21: every pause stored for a shift saved by the shift form lies within
\* [shift.start, shift.end] once the rollover is applied, whatever pause
\* times were entered, and so the pause duration of a saved shift never
\* exceeds its gross duration end - start.
C21_PausesWithinShift ==
    \A i \in 1..Len(shifts) :
       /\ \A k \in 1..Len(shifts[i].pauses) : PauseWithinShift(shifts[i].pauses[k], shifts[i])
       /\ calculatePauseDuration(shifts[i])
              <= MsBetween(ParseISO(shifts[i].start[1]), ParseISO(shifts[i].end[1]))

\* the ids of the records of a collection are pairwise distinct
DistinctIds(records) ==
    \A i \in 1..Len(records), j \in 1..Len(records) :
       records[i].id = records[j].id => i = j

\* C22: after any sequence of additions, updates and deletions, two additions
\* at the same clock millisecond included, the ids within a collection are
\* pairwise distinct, so that an update or deletion by id affects at most one
\* record.
C22_UniqueIds == DistinctIds(entries) /\ DistinctIds(shifts)

\* the weekday (0 = Sunday) of the calendar date stored for an entry
WeekdayOfEntry(e) == WeekDay(DaysFromCivil(e.date.Y, e.date.M, e.date.D))

\* the indices of the entries of fe on the weekday given
OnWeekday(fe, day) == {i \in 1..Len(fe) : WeekdayOfEntry(fe[i]) = day}

\* the distinct calendar dates of the entries of fe on the weekday given
DatesOnWeekday(fe, day) ==
    {<<fe[i].date.Y, fe[i].date.M, fe[i].date.D>> : i \in OnWeekday(fe, day)}

\* gains less expenses of the entries of fe on the weekday given
ProfitOnWeekday(fe, day) ==
    SumSeq([i \in 1..Len(fe) |->
               IF i \notin OnWeekday(fe, day) THEN 0
               ELSE IF fe[i].type = "GAIN" THEN fe[i].amount ELSE -fe[i].amount])

\* the average of a weekday with entries, as a fraction
WeekdayAverage(fe, day) ==
    Frac(ProfitOnWeekday(fe, day), Cardinality(DatesOnWeekday(fe, day)))

\* the weekdays with a positive average
ProfitableWeekdays(fe) ==
    {day \in 0..6 : OnWeekday(fe, day) # {} /\ WeekdayAverage(fe, day).n > 0}

\* C23: most profitable weekday.  Each weekday's average is the gains less
\* the expenses of the entries on that weekday, divided by the number of
\* distinct calendar dates that contributed; the weekday reported is one with
\* the highest average, and 'insufficient data' is reported exactly when no
\* weekday has a positive average (the empty entry set included).
C23_MostProfitableDay ==
    IF ProfitableWeekdays(filteredEntries) = {}
    THEN mostProfitableDayResult(filteredEntries) = InsufficientData
    ELSE \E day \in ProfitableWeekdays(filteredEntries) :
            /\ mostProfitableDayResult(filteredEntries).value = weekDays[day + 1]
            /\ mostProfitableDayResult(filteredEntries).description.n
                   * WeekdayAverage(filteredEntries, day).d
                 = WeekdayAverage(filteredEntries, day).n
                   * mostProfitableDayResult(filteredEntries).description.d
            /\ \A other \in ProfitableWeekdays(filteredEntries) :
                  ~FracLess(WeekdayAverage(filteredEntries, day),
                            WeekdayAverage(filteredEntries, other))

\* the averages of the reduction that are the highest and positive
TopWeekdays(averages) ==
    {k \in 1..7 : /\ averages[k].avgProfit.n > 0
                  /\ \A j \in 1..7 : ~FracLess(averages[k].avgProfit, averages[j].avgProfit)}

\* the group met first in the entry set among the groups given
FirstEncountered(groups, tied) ==
    groups[CHOOSE i \in 1..Len(groups) :
              /\ groups[i] \in tied
              /\ \A j \in 1..(i - 1) : groups[j] \notin tied]

GroupsOf(groups) == {groups[i] : i \in 1..Len(groups)}

\* the platforms with the highest revenue per trip
TopPlatforms(list) ==
    {k \in GroupsOf(PlatformOf(list)) : \A o \in GroupsOf(PlatformOf(list)) :
        ~FracLess(RevenuePerTrip(GroupSum(PlatformOf(list), AmountOf(list), k),
                                 GroupSum(PlatformOf(list), TripsOf(list), k)),
                  RevenuePerTrip(GroupSum(PlatformOf(list), AmountOf(list), o),
                                 GroupSum(PlatformOf(list), TripsOf(list), o)))}

\* the platforms with the most trips
MostUsedPlatforms(list) ==
    {k \in GroupsOf(PlatformOf(list)) : \A o \in GroupsOf(PlatformOf(list)) :
        GroupSum(PlatformOf(list), TripsOf(list), k)
            >= GroupSum(PlatformOf(list), TripsOf(list), o)}

\* the fuels with the lowest cost per km
CheapestFuels(list) ==
    {k \in GroupsOf(FuelOf(list)) : \A o \in GroupsOf(FuelOf(list)) :
        ~FracLess(CostPerKm(GroupSum(FuelOf(list), AmountOf(list), o),
                            GroupSum(FuelOf(list), DistanceOf(list), o)),
                  CostPerKm(GroupSum(FuelOf(list), AmountOf(list), k),
                            GroupSum(FuelOf(list), DistanceOf(list), k)))}

\* of weekdays with the same highest positive average the one with the lower
\* index is reported
WeekdayTieBreak(fe) ==
    TopWeekdays(DayAverages(fe)) # {} =>
        mostProfitableDayResult(fe).value
            = weekDays[CHOOSE k \in TopWeekdays(DayAverages(fe)) :
                          \A j \in TopWeekdays(DayAverages(fe)) : k <= j]

\* of platforms with the same best revenue per trip the one met first in the
\* entry set is reported
BestPlatformTieBreak(fe) ==
    PlatformTrips(fe) # <<>> =>
        bestPlatformResult(fe).value
            = FirstEncountered(PlatformOf(PlatformTrips(fe)), TopPlatforms(PlatformTrips(fe)))

\* of platforms with the same number of trips the one met first is reported
MostUsedTieBreak(fe) ==
    PlatformUses(fe) # <<>> =>
        mostUsedPlatformResult(fe).value
            = FirstEncountered(PlatformOf(PlatformUses(fe)), MostUsedPlatforms(PlatformUses(fe)))

\* of fuels with the same lowest cost per km the one met first is reported
FuelTieBreak(fe) ==
    FuelUses(fe) # <<>> =>
        mostEfficientFuelResult(fe).value
            = FirstEncountered(FuelOf(FuelUses(fe)), CheapestFuels(FuelUses(fe)))

\* C24: insight ties are broken by 'first in reduction order wins': of two
\* weekdays with the same highest positive average the one with the lower
\* index (0 = Sunday) is reported, and of two platforms (best revenue per
\* trip, most used) or two fuel types (lowest cost per km) that tie, the one
\* met first in the entry set, whichever platforms or fuels are involved.
C24_TieBreaks ==
    /\ WeekdayTieBreak(filteredEntries)
    /\ BestPlatformTieBreak(filteredEntries)
    /\ MostUsedTieBreak(filteredEntries)
    /\ FuelTieBreak(filteredEntries)

\* the weekday (0 = Sunday) of a calendar date written as YYYY-MM-DD
WeekdayOfDateString(text) ==
    WeekDay(DaysFromCivil(SplitNumbers(text, "-")[1], SplitNumbers(text, "-")[2],
                          SplitNumbers(text, "-")[3]))

\* C25: for every host time zone, an entry contributes to the weekday of its
\* own stored calendar date: the weekday bucket to which its signed amount is
\* added is the weekday of the calendar date recorded for it in the distinct
\* dates of that bucket.
C25_WeekdayOfStoredDate ==
    \A day \in 0..6 : \A dateString \in DayStats(filteredEntries, day).days :
        WeekdayOfDateString(dateString) = day

\* C26: an entry saved through the entry form with today's date is, right
\* after saving, for every host zone and every time of day, in the filtered
\* set of the periods 'all', 'last_7_days' and 'last_30_days', whose upper
\* bound is the current instant.
C26_TodayEntryIncluded ==
    \A period \in RollingPeriods :
        filteredEntriesOf([filter EXCEPT !.period = period]) = entries

\* the records of a collection that carry the id, and those that do not
WithId(records, id) ==
    LET Same(r) == r.id = id
    IN  SelectSeq(records, Same)

OtherIds(records, id) ==
    LET Other(r) == r.id # id
    IN  SelectSeq(records, Other)

Count(records, r) == Cardinality({i \in 1..Len(records) : records[i] = r})

\* the two collections hold the same records, each as often, in any order
SameRecords(a, b) ==
    /\ Len(a) = Len(b)
    /\ \A i \in 1..Len(a) : Count(a, a[i]) = Count(b, a[i])

\* after holds the records of before and one more, the record given
AddedOne(before, after, record) ==
    \E i \in 1..Len(after) :
       /\ after[i] = record
       /\ SameRecords(SubSeq(after, 1, i - 1) \o SubSeq(after, i + 1, Len(after)), before)

\* the records with the id of updated are replaced by it, the others are kept,
\* and nothing happens when no record has the id
ReplacedById(before, after, updated) ==
    /\ Len(after) = Len(before)
    /\ SameRecords(OtherIds(after, updated.id), OtherIds(before, updated.id))
    /\ \A i \in 1..Len(after) : after[i].id = updated.id => after[i] = updated
    /\ WithId(before, updated.id) = <<>> => after = before

\* the records with the id are gone, the others are kept in their order, and
\* nothing happens when no record has the id
RemovedById(before, after, id) ==
    /\ WithId(after, id) = <<>>
    /\ OtherIds(after, id) = OtherIds(before, id)
    /\ Len(after) = Len(before) - Len(WithId(before, id))
    /\ WithId(before, id) = <<>> => after = before

\* C27: store operations touch only their target.  addEntry and addShift add
\* exactly one record and keep every record held; updateEntry and updateShift
\* replace exactly the records with the id given and do nothing, and insert
\* nothing, when the id is absent; deleteEntry and deleteShift remove exactly
\* the records with the id given and do nothing when it is absent; an
\* operation on one collection leaves the other collection and the goals as
\* they were, and a change of the filter changes none of the three.
C27_StoreFrame ==
    [][/\ \A e \in CallEntries :
            CallAddEntry(WithoutId(e)) =>
               /\ AddedOne(entries, entries', [e EXCEPT !.id = toISOString(now)])
               /\ shifts' = shifts /\ goals' = goals
       /\ \A e \in CallEntries, id \in CallIds :
            CallUpdateEntry([e EXCEPT !.id = id]) =>
               /\ ReplacedById(entries, entries', [e EXCEPT !.id = id])
               /\ shifts' = shifts /\ goals' = goals
       /\ \A id \in CallIds :
            CallDeleteEntry(id) =>
               /\ RemovedById(entries, entries', id)
               /\ shifts' = shifts /\ goals' = goals
       /\ \A sh \in CallShifts :
            CallAddShift(WithoutId(sh)) =>
               /\ AddedOne(shifts, shifts', [sh EXCEPT !.id = toISOString(now)])
               /\ entries' = entries /\ goals' = goals
       /\ \A sh \in CallShifts, id \in CallIds :
            CallUpdateShift([sh EXCEPT !.id = id]) =>
               /\ ReplacedById(shifts, shifts', [sh EXCEPT !.id = id])
               /\ entries' = entries /\ goals' = goals
       /\ \A id \in CallIds :
            CallDeleteShift(id) =>
               /\ RemovedById(shifts, shifts', id)
               /\ entries' = entries /\ goals' = goals
       /\ \A g \in CallGoals :
            CallUpdateGoals(g) => entries' = entries /\ shifts' = shifts
       /\ filter' # filter =>
            entries' = entries /\ shifts' = shifts /\ goals' = goals]_vars

\* both collections are filled, under ids of which one is held by no entry,
\* the goals are saved and the filter is changed
C27_Witness ==
    /\ Len(entries) = MaxRecords
    /\ \E id \in CallIds : WithId(entries, id) = <<>>
    /\ shifts # <<>>
    /\ goals # DefaultGoals
    /\ filter.period = "this_week"

\* C28: for the period 'custom' the daily goals are selected for a span of a
\* single day only: a custom range whose start and end are different calendar
\* dates, so that the filtered range covers two or more calendar days, never
\* selects the daily goals.
C28_CustomDailySingleDay ==
    (/\ filter.period = "custom"
     /\ filter.customRange.start # <<>> /\ filter.customRange.end # <<>>
     /\ filter.customRange.start # filter.customRange.end)
        => DashboardGoal(filter, goals) = <<>>

\* C29: after any sequence of addEntry, updateEntry and deleteEntry from the
\* empty collection the entries are ordered by date, newest first; likewise
\* the shifts are ordered by start, newest first, after any sequence of
\* addShift, updateShift and deleteShift.
C29_NewestFirst ==
    /\ \A i, j \in 1..Len(entries) :
          i < j => NotAfter(EntryDate(entries[j]), EntryDate(entries[i]))
    /\ \A i, j \in 1..Len(shifts) :
          i < j => NotAfter(ShiftStart(shifts[j]), ShiftStart(shifts[i]))

\* each collection holds records of two different days
C29_Witness ==
    /\ Len(entries) = 2 /\ Before(EntryDate(entries[2]), EntryDate(entries[1]))
    /\ Len(shifts) = 2 /\ Before(ShiftStart(shifts[2]), ShiftStart(shifts[1]))

\* C30: once a GET for a url has been answered by the network with status 200,
\* or the url was stored at install, every later GET for that url is answered
\* with a cached response, also when the network fails; responses with another
\* status than 200 and requests that are no GET are never written to the cache.
C30_OfflineAvailability ==
    /\ (lastAnswer # <<>> /\ lastAnswer[1].method = "GET" /\ lastAnswer[1].known)
          => lastAnswer[1].source = "cache"
    /\ \A n \in DOMAIN caches : \A e \in caches[n] : e.status = 200 /\ e.method = "GET"

====
